---- MODULE Spec2Model ----
(***************************************************************************)
(* Model of the AdGuardHome rewrite-rule reconciliation engine:            *)
(*   app.py            AdGuardDNSSync.sync_rules / generate_rules          *)
(*   adguard_client.py AdGuardHomeClientV2.sync_rules and its requests     *)
(*   database.py       RuleDatabase.load_managed_rules / save_managed_rules*)
(*   app.py            notifications, startup, shutdown and the threads    *)
(*   logger.py         Logger._metrics                                     *)
(*   health.py         HealthChecker.get_health_status                     *)
(* The provider (AdGuardHome) is an external collaborator; it is modelled  *)
(* as a domain-keyed collection of rewrite records.                        *)
(***************************************************************************)
EXTENDS Integers, Sequences, FiniteSets, TLC

VARIABLES
    remote,            \* the provider's live rewrite records, by domain
    files,             \* the store's files: primary, latest backup, generations
    safety_threshold,  \* ADGUARD_SAFETY_THRESHOLD, in tenths
    cyc,               \* per thread: the reconciliation cycle it is running
    cycles,            \* number of cycles started so far
    created,           \* history: domains the engine's add requests were acknowledged for
    prev,              \* history: summary of the finished cycles
    now,               \* the clock, in seconds
    max_backups,       \* DB_MAX_BACKUPS
    store,             \* the store call in progress, step by step (SpecStore)
    lock,              \* RuleDatabase._lock: "free" or the thread that holds it
    delayed,           \* the delayed_sync threads started by change notifications
    proc,              \* the process: run(), shutdown() and the threads it joins
    request,           \* the provider call in progress, attempt by attempt
    config,            \* the configuration values read from the environment
    metrics,           \* Logger._metrics and the threads updating it
    health             \* HealthChecker: cache, probes and the status served

\* the state around the reconciliation engine and its store
outer == <<delayed, proc, request, config, metrics, health>>

vars ==
    <<remote, files, safety_threshold, cyc, cycles, created, prev, now,
      max_backups, store, lock, outer>>

(***************************************************************************)
(* Bounds and input sets                                                   *)
(***************************************************************************)
MaxCycles == 2

\* the number of cycles of the longer runs (SpecLong)
MaxLongCycles == 3

\* the number of cycles of the runs with a failing store (SpecFaults)
MaxFaultCycles == 3

\* the store on its own (SpecStore): calls made, seconds elapsed, faults
\* (a file damaged from outside, a disk error, a kill of the process)
MaxStoreCalls == 4

MaxClock == 1

MaxStoreFaults == 2

\* change notifications (SpecDebounce): notifications arriving, seconds elapsed
MaxNotifications == 3

MaxDebounceClock == 3

\* shutdown (SpecShutdown): cycles started
MaxShutdownCycles == 2

\* metrics (SpecMetrics): cycles that log their counts
MaxMetricCycles == 3

\* health (SpecHealth): requests served, seconds elapsed
MaxHealthRequests == 3

MaxHealthClock == 6

\* shutdown with notifications pending (SpecQuiesce): notifications arriving,
\* cycles started, seconds elapsed before shutdown begins
MaxQuiesceNotifications == 1

MaxQuiesceCycles == 1

MaxQuiesceClock == 1

\* overlapping cycles (SpecOverlap): cycles started
MaxOverlapCycles == 2

\* backup rotation (SpecRotation): saves made, seconds elapsed
MaxRotationSaves == 5

MaxRotationClock == 4

Domains == {"x", "y", "z"}

Answers == {"a1", "a2"}

\* addresses the cluster observer reports
ObservedIps == {"a1"}

\* the records the provider may hold before the engine's first cycle: a rule
\* with the observed address, enabled or disabled by hand, or another address
InitialRemoteRules ==
    {[answer |-> "a1", enabled |-> TRUE],
     [answer |-> "a1", enabled |-> FALSE],
     [answer |-> "a2", enabled |-> TRUE]}

\* threads that run sync_rules: the periodic loop and a delayed_sync thread
Threads == {"periodic", "debounce"}

\* the thread that runs cycles one after the other (run()'s initial sync,
\* then periodic_sync's loop)
SeqThreads == {"periodic"}

\* candidate values of ADGUARD_SAFETY_THRESHOLD in tenths (0.0, 0.8, 1.0, 1.1)
CandidateThresholds == {0, 8, 10, 11}

(***************************************************************************)
(* models.py: RewriteRule.  A mapping domain -> rule is a function over    *)
(* Domains whose value is NoRule where the domain is not a key.            *)
(***************************************************************************)
NoRule == [answer |-> "none", enabled |-> FALSE]

RewriteRule(answer, enabled) == [answer |-> answer, enabled |-> enabled]

Rules == [answer : Answers, enabled : BOOLEAN]

RuleMaps == [Domains -> Rules \cup {NoRule}]

EmptyMap == [d \in Domains |-> NoRule]

keys(m) == {d \in Domains : m[d] # NoRule}

(***************************************************************************)
(* adguard_client.py: configuration                                        *)
(***************************************************************************)
DefaultSafetyThreshold == 8

MinSafetyThreshold == 1

MaxSafetyThreshold == 10

\* _validate_configuration: raises unless 0.1 <= safety_threshold <= 1.0
ValidSafetyThreshold(t) == ~(t < MinSafetyThreshold \/ t > MaxSafetyThreshold)

(***************************************************************************)
(* database.py: the store's files.  A file is absent, holds one complete   *)
(* serialized rule set (ok), is unparseable (corrupt) or is half-written   *)
(* (partial: opened for writing and not yet completely written).           *)
(* files.db is the primary, files.backup the latest backup (db + ".backup")*)
(* files.gens the timestamped backups (db + ".backup.<YYYYmmdd_HHMMSS>"),  *)
(* files.tmp the temporary file (db + ".tmp"), files.corrupted the         *)
(* quarantined primaries (db + ".corrupted.<epoch>") and                   *)
(* files.backup_corrupted the quarantined latest backups                   *)
(* (db + ".backup.corrupted.<epoch>").  Lists of timestamped files are     *)
(* kept in name order, oldest first; the clock `now` counts seconds and    *)
(* never goes back.                                                        *)
(***************************************************************************)
DefaultMaxBackups == 5

Absent == [st |-> "absent", rules |-> EmptyMap]

Corrupt == [st |-> "corrupt", rules |-> EmptyMap]

Partial == [st |-> "partial", rules |-> EmptyMap]

FileOf(m) == [st |-> "ok", rules |-> m]

\* a file whose name ends in the timestamp ts
Named(ts, file) == [ts |-> ts, file |-> file]

\* writing the file named by timestamp ts: a file of that name is overwritten
PutNamed(seq, ts, file) ==
    IF Len(seq) > 0 /\ seq[Len(seq)].ts = ts
    THEN [seq EXCEPT ![Len(seq)].file = file]
    ELSE Append(seq, Named(ts, file))

NoFiles ==
    [db |-> Absent, backup |-> Absent, gens |-> <<>>, tmp |-> Absent,
     corrupted |-> <<>>, backup_corrupted |-> <<>>]

\* os.path.exists
Exists(f) == f.st # "absent"

\* _load_from_file succeeds (no JSONDecodeError / ValueError)
Parses(f) == f.st = "ok"

\* mutant: the list is read oldest name first
NewestFirst_oldestFirst(seq) == seq

\* sorted(..., reverse=True) of a list kept in name order
NewestFirst(seq) == [i \in 1..Len(seq) |-> seq[Len(seq) + 1 - i]]

\* sorted(glob(db + ".backup.*"), reverse=True): the pattern matches the
\* quarantined latest backups too, whose names ("corrupted...") sort above
\* every timestamp
BackupGlob(f) == NewestFirst(f.backup_corrupted) \o NewestFirst(f.gens)

\* _try_backup_restore: index of the first file of the list that parses, 0 if none
FirstParsing(seq) ==
    IF \E i \in 1..Len(seq) : Parses(seq[i].file)
    THEN CHOOSE i \in 1..Len(seq) :
             Parses(seq[i].file) /\ \A j \in 1..(i - 1) : ~Parses(seq[j].file)
    ELSE 0

\* _cleanup_corrupted_file(self.db_file): moved to db.corrupted.<now>
CleanupCorruptedDb(f) ==
    [f EXCEPT !.corrupted = PutNamed(@, now, f.db), !.db = Absent]

\* _cleanup_corrupted_file(self.backup_file): moved to db.backup.corrupted.<now>
CleanupCorruptedBackup(f) ==
    [f EXCEPT !.backup_corrupted = PutNamed(@, now, f.backup), !.backup = Absent]

\* _try_backup_restore: <<rules returned, files afterwards>>
TryBackupRestore(f) ==
    LET nf == BackupGlob(f)
        i  == FirstParsing(nf)
    IN  IF i # 0
        THEN <<nf[i].file.rules, [f EXCEPT !.db = nf[i].file]>>
        ELSE IF Exists(f.backup) /\ Parses(f.backup)
             THEN <<f.backup.rules, [f EXCEPT !.db = f.backup]>>
             ELSE <<EmptyMap, f>>

\* load_managed_rules: <<rules returned, files afterwards>>
LoadManagedRules(f) ==
    IF Exists(f.db)
    THEN IF Parses(f.db)
         THEN IF keys(f.db.rules) # {}
              THEN <<f.db.rules, f>>
              ELSE <<EmptyMap, CleanupCorruptedDb(f)>>
         ELSE TryBackupRestore(CleanupCorruptedDb(f))
    ELSE IF Exists(f.backup)
         THEN IF Parses(f.backup)
              THEN IF keys(f.backup.rules) # {}
                   THEN <<f.backup.rules, [f EXCEPT !.db = f.backup]>>
                   ELSE <<EmptyMap, f>>
              ELSE <<EmptyMap, CleanupCorruptedBackup(f)>>
         ELSE <<EmptyMap, f>>

\* the n last files of a list kept in name order
Newest(seq, n) ==
    IF Len(seq) > n THEN SubSeq(seq, Len(seq) - n + 1, Len(seq)) ELSE seq

\* _cleanup_old_backups: of the files the pattern matches, newest name first,
\* all but the first max_backups are removed
CleanupOldBackups(f) ==
    LET q == Len(f.backup_corrupted)
    IN  [f EXCEPT !.backup_corrupted = Newest(@, max_backups),
                  !.gens = Newest(@, IF max_backups > q THEN max_backups - q ELSE 0)]

\* _create_backup: timestamped copy, latest-backup copy, pruning
CreateBackup(f) ==
    CleanupOldBackups([f EXCEPT !.gens = PutNamed(@, now, f.db),
                                !.backup = f.db])

\* _save_to_file: temporary file written, then renamed over the target
SaveToFile(f, rules) == [f EXCEPT !.db = FileOf(rules), !.tmp = Absent]

\* save_managed_rules: files afterwards
SaveManagedRules(f, rules) ==
    SaveToFile(IF Exists(f.db) THEN CreateBackup(f) ELSE f, rules)

\* the store call in progress or last made.  pc: the next file operation of
\* the call ("idle": none in progress); call: "load" or "save"; status: how
\* the last call ended; rules: the argument of save; result: what load
\* returns; src: the file a copy in progress reads; ts: the timestamp
\* _create_backup took.  History: files0, the files when the call started;
\* calls and faults made so far; saves, the number of saves that returned
\* while nothing but returning saves had happened (clean); cut, the primary
\* was truncated right after a save of a non-empty set returned; aftercut,
\* the call in progress is the load that follows that; faulted, a file
\* operation of the call failed.
IdleStore ==
    [pc |-> "idle", call |-> "none", status |-> "none", rules |-> EmptyMap,
     result |-> EmptyMap, src |-> Absent, ts |-> 0, files0 |-> NoFiles,
     calls |-> 0, faults |-> 0, saves |-> 0, clean |-> TRUE,
     cut |-> FALSE, aftercut |-> FALSE, faulted |-> FALSE]

(***************************************************************************)
(* The provider's rewrite collection (external; contract of the four       *)
(* operations).  A request that is not acknowledged leaves it unchanged.   *)
(***************************************************************************)
\* POST /control/rewrite/add with RewriteRule.to_dict()
ProviderAdd(r, payload) ==
    [r EXCEPT ![payload.domain] = RewriteRule(payload.answer, payload.enabled)]

\* POST /control/rewrite/delete: removes the record matching domain and answer
ProviderDelete(r, payload) ==
    IF r[payload.domain] # NoRule /\ r[payload.domain].answer = payload.answer
    THEN [r EXCEPT ![payload.domain] = NoRule]
    ELSE r

\* POST /control/rewrite/update: replaces the record matching the target by
\* the update; the request carries no enabled flag, so the flag afterwards
\* (flag) is the provider's choice: the old one or its default
ProviderUpdate(r, payload, flag) ==
    IF r[payload.target.domain] # NoRule
       /\ r[payload.target.domain].answer = payload.target.answer
    THEN [r EXCEPT ![payload.update.domain] =
                       RewriteRule(payload.update.answer, flag)]
    ELSE r

\* the flags a provider may leave on a record updated without an enabled field
UpdatedFlags(r, d) == {TRUE} \cup (IF r[d] # NoRule THEN {r[d].enabled} ELSE {})

(***************************************************************************)
(* adguard_client.py: requests                                             *)
(***************************************************************************)
\* get_rewrite_rules: the parsed list, or {} on any failure
get_rewrite_rules(r, ok) == IF ok THEN r ELSE EmptyMap

\* RewriteRule.to_dict, as sent by add_rewrite_rule
AddPayload(domain, rule) ==
    [domain |-> domain, answer |-> rule.answer, enabled |-> rule.enabled]

\* delete_rewrite_rule: a request is sent only for a domain of current_rules
DeleteSendsRequest(domain, current_rules) == domain \in keys(current_rules)

DeletePayload(domain, current_rules) ==
    [domain |-> domain, answer |-> current_rules[domain].answer]

\* update_rewrite_rule: falls back to add for a domain not in current_rules
UpdateFallsBackToAdd(domain, current_rules) == domain \notin keys(current_rules)

UpdatePayload(domain, rule, current_rules) ==
    [target |-> [domain |-> domain, answer |-> current_rules[domain].answer],
     update |-> [domain |-> domain, answer |-> rule.answer]]

(***************************************************************************)
(* adguard_client.py: sync_rules, the plan                                 *)
(***************************************************************************)
NoRequests == [add |-> {}, update |-> {}, delete |-> {}]

IdleCycle ==
    [pc            |-> "idle",
     target_rules  |-> EmptyMap,
     managed_rules |-> EmptyMap,
     current_rules |-> EmptyMap,
     list_ok       |-> FALSE,
     sent          |-> NoRequests,
     acked         |-> NoRequests,
     outcome       |-> "none",
     saved         |-> FALSE,
     files1        |-> NoFiles,
     remote0       |-> EmptyMap,
     seq           |-> 0]

current_domains(c) == keys(c.current_rules)

target_domains(c) == keys(c.target_rules)

\* mutant: the managed domains taken from the provider's list instead of the store
app_managed_domains_fromCurrent(c) == keys(c.current_rules)

app_managed_domains(c) == keys(c.managed_rules)

to_add_or_update(c) == target_domains(c) \ current_domains(c)

to_update(c) == current_domains(c) \cap target_domains(c)

to_delete(c) == app_managed_domains(c) \ target_domains(c)

\* mutant: the empty-list check is missing
ListAborts_never(current_rules) == FALSE

\* "if not current_rules: return False"
ListAborts(current_rules) == keys(current_rules) = {}

\* mutant: the threshold factor is missing from the comparison
SafetyCheckFailed_noThreshold(c, threshold) ==
    Cardinality(to_delete(c)) > Cardinality(app_managed_domains(c))

\* len(to_delete) > len(app_managed_domains) * safety_threshold
SafetyCheckFailed(c, threshold) ==
    Cardinality(to_delete(c)) * 10 > Cardinality(app_managed_domains(c)) * threshold

\* mutant: only the answers are compared
NeedsUpdate_answerOnly(c, d) ==
    c.current_rules[d].answer # c.target_rules[d].answer

\* current_rule.answer != rule.answer or current_rule.enabled != rule.enabled
NeedsUpdate(c, d) ==
    \/ c.current_rules[d].answer # c.target_rules[d].answer
    \/ c.current_rules[d].enabled # c.target_rules[d].enabled

\* mutant: the delete loop runs first
PhaseOrder_deleteFirst == <<"delete", "add", "update">>

\* the three loops of sync_rules, in the order they are written
PhaseOrder == <<"add", "update", "delete">>

\* mutant: the delete loop runs over every listed domain that is not a target
PhaseItems_deleteUnlisted(c, p) ==
    CASE p = "add"    -> to_add_or_update(c)
      [] p = "update" -> {d \in to_update(c) : NeedsUpdate(c, d)}
      [] p = "delete" -> current_domains(c) \ target_domains(c)

\* the domains a loop sends a request for
PhaseItems(c, p) ==
    CASE p = "add"    -> to_add_or_update(c)
      [] p = "update" -> {d \in to_update(c) : NeedsUpdate(c, d)}
      [] p = "delete" -> {d \in to_delete(c) : DeleteSendsRequest(d, c.current_rules)}

Pending(c, p) == PhaseItems(c, p) \ c.sent[p]

\* mutant: the loops stop at the first request that fails
CurrentPhase_stopAtFailure(c) ==
    LET left == {i \in 1..Len(PhaseOrder) : Pending(c, PhaseOrder[i]) # {}}
    IN  IF left = {} \/ c.sent # c.acked THEN "end"
        ELSE PhaseOrder[CHOOSE i \in left : \A j \in left : i <= j]

\* the loop the cycle is in: the first one that still has a domain to process
CurrentPhase(c) ==
    LET left == {i \in 1..Len(PhaseOrder) : Pending(c, PhaseOrder[i]) # {}}
    IN  IF left = {} THEN "end"
        ELSE PhaseOrder[CHOOSE i \in left : \A j \in left : i <= j]

\* domains of to_update found already correct
skipped(c) == {d \in to_update(c) : ~NeedsUpdate(c, d)}

(***************************************************************************)
(* app.py: the observer and one reconciliation cycle                       *)
(***************************************************************************)
\* get_dns_resources: hostname -> ip; {} when the cluster API fails
DnsResources == [Domains -> ObservedIps \cup {"none"}]

\* generate_rules: one enabled rule per hostname
generate_rules(dns) ==
    [d \in Domains |->
        IF dns[d] = "none" THEN NoRule ELSE RewriteRule(dns[d], TRUE)]

\* history of the finished cycles.  Of the last one: whether the provider
\* answered every call of it (healthy), the DesiredSet it worked on if it was
\* healthy or ran to its end, the domains whose request failed in it if it ran
\* to its end, the exception it ended by (error, "none" if it ended by none)
\* and the thread that ran it.  Of all of them: the domains of the
\* DesiredSets of the cycles that saved (desired_ever), and the file the last
\* save that returned wrote (last_saved, Absent before the first).
NoPrev ==
    [healthy |-> FALSE, target_rules |-> EmptyMap, failed |-> {},
     error |-> "none", thread |-> "none", desired_ever |-> {},
     last_saved |-> Absent]

(***************************************************************************)
(* The state around the engine, at rest.  Each part is described with the  *)
(* specification that moves it.                                            *)
(***************************************************************************)
\* delayed_sync threads: the wake-up times of those still in time.sleep, in
\* the order they were started; how many are inside sync_rules; how many have
\* called it; and of the notifications: how many arrived, when the last one
\* arrived (-1: none yet) and how many quiet windows they opened (a
\* notification opens one if none arrived in the change_wait_time before it)
NoDelayed ==
    [sleeping |-> <<>>, running |-> 0, started |-> 0,
     notifications |-> 0, last |-> -1, windows |-> 0]

\* the threads run() appends to self.threads, in the order it starts them
JoinedThreads == <<"health-server", "periodic-sync", "k8s-watcher">>

\* the process after run() has started its threads: the main loop is running,
\* shutdown_event is clear and the three threads are alive.  During shutdown():
\* the index of the thread the loop is at, whether it is inside join, when
\* that join gives up, when shutdown() began and the joins that gave up.
\* History: the threads whose cycle had passed the safety check when
\* shutdown_event was set, and the number of cycles started by then.
InitialProc ==
    [phase          |-> "running",
     shutdown_event |-> FALSE,
     alive          |-> {JoinedThreads[i] : i \in 1..Len(JoinedThreads)},
     joining        |-> 0,
     waiting        |-> FALSE,
     deadline       |-> 0,
     began          |-> 0,
     timed_out      |-> {},
     past_check     |-> {},
     cycles_at_set  |-> 0]

\* a call of the provider client: the method called, the operation of the
\* request it sends, the attempts made, what each attempt met, the sleeps
\* made between attempts in seconds, and the value returned
NoRequest ==
    [pc |-> "idle", call |-> "none", operation |-> "none", attempt |-> 0,
     outcomes |-> <<>>, delays |-> <<>>, result |-> FALSE]

\* a value parsed by float(): a number, kept in tenths, or nan
Float(tenths) == [nan |-> FALSE, tenths |-> tenths]

NaN == [nan |-> TRUE, tenths |-> 0]

\* a < b on floats: every comparison with nan is false
FloatLess(a, b) == ~a.nan /\ ~b.nan /\ a.tenths < b.tenths

\* the defaults of the os.getenv calls
DefaultConfig ==
    [sync_interval       |-> 30,
     change_wait_time    |-> 5,
     main_loop_sleep     |-> 1,
     thread_join_timeout |-> 5,
     health_server_port  |-> 8080,
     max_retries         |-> 3,
     retry_delay         |-> 2,
     request_timeout     |-> 10,
     safety_threshold    |-> Float(DefaultSafetyThreshold),
     max_backups         |-> DefaultMaxBackups,
     debug_log_chars     |-> 500,
     lock_timeout        |-> Float(300)]

\* the cumulative counters of Logger._metrics, in the order a cycle adds to them
Counters == <<"sync_operations", "rules_created", "rules_updated", "rules_deleted">>

\* a thread that is not logging: stmt is the "+=" statement it is at (0: none),
\* loaded whether it has read the counter, value what it read, and amounts
\* what the cycle adds to each counter
NotLogging == [stmt |-> 0, loaded |-> FALSE, value |-> 0, amounts |-> <<0, 0, 0, 0>>]

\* Logger._metrics, the threads adding to it, and as history the sum of the
\* amounts added to each counter and the number of cycles that logged
NoMetrics ==
    [counters |-> [i \in 1..Len(Counters) |-> 0],
     sum      |-> [i \in 1..Len(Counters) |-> 0],
     thread   |-> [t \in Threads |-> NotLogging],
     cycles   |-> 0]

\* the subsystems the health checker probes
Components == {"adguard", "k8s"}

\* HealthChecker at construction: per component the cache entry (last_check
\* -1: None; error "none": None) and the consecutive failures; the status
\* last served by /health; as history what the last probe of each component
\* met ("none": not probed yet) and the number of requests served
NoHealth ==
    [cache    |-> [c \in Components |->
                     [healthy |-> FALSE, last_check |-> -1, error |-> "none"]],
     failures |-> [c \in Components |-> 0],
     status   |-> [served |-> FALSE, status |-> "none",
                   healthy |-> [c \in Components |-> FALSE],
                   error |-> [c \in Components |-> "none"]],
     probe    |-> [c \in Components |-> "none"],
     requests |-> 0]

OuterIdle ==
    /\ delayed = NoDelayed
    /\ proc = InitialProc
    /\ request = NoRequest
    /\ config = DefaultConfig
    /\ metrics = NoMetrics
    /\ health = NoHealth

TypeOK ==
    /\ remote \in RuleMaps
    /\ safety_threshold \in CandidateThresholds
    /\ cycles \in 0..MaxLongCycles
    /\ created \subseteq Domains
    /\ \A t \in Threads :
          cyc[t].pc \in {"idle", "observed", "loading", "loaded", "apply", "done"}
    /\ lock \in {"free"} \cup Threads

Init ==
    /\ remote \in [Domains -> InitialRemoteRules \cup {NoRule}]
    /\ files = NoFiles
    /\ safety_threshold \in {t \in CandidateThresholds : ValidSafetyThreshold(t)}
    /\ cyc = [t \in Threads |-> IdleCycle]
    /\ cycles = 0
    /\ created = {}
    /\ prev = NoPrev
    /\ now = 0
    /\ max_backups = DefaultMaxBackups
    /\ store = IdleStore
    /\ lock = "free"
    /\ OuterIdle

\* AdGuardDNSSync.sync_rules: new_rules = self.generate_rules(); at most n
\* cycles are run
ObserveUpTo(t, n) ==
    /\ cyc[t].pc = "idle"
    /\ \A u \in Threads : cyc[u].pc = "idle"
    /\ cycles < n
    /\ \E dns \in DnsResources :
          cyc' = [cyc EXCEPT ![t] = [IdleCycle EXCEPT
                     !.pc = "observed",
                     !.target_rules = generate_rules(dns),
                     !.remote0 = remote]]
    /\ cycles' = cycles + 1
    /\ now' = now + 1
    /\ UNCHANGED <<remote, files, safety_threshold, created, prev, max_backups, store, lock, outer>>

Observe(t) == ObserveUpTo(t, MaxCycles)

\* load_managed_rules returns to AdGuardDNSSync.sync_rules
LoadReturns(t) ==
    LET res == LoadManagedRules(files)
    IN  /\ files' = res[2]
        /\ cyc' = [cyc EXCEPT ![t].pc = "loaded",
                              ![t].managed_rules = res[1],
                              ![t].files1 = res[2]]

\* AdGuardDNSSync.sync_rules: managed_rules = self.rule_db.load_managed_rules(),
\* the lock acquired and released within the step
Load(t) ==
    /\ cyc[t].pc = "observed"
    /\ lock = "free"
    /\ LoadReturns(t)
    /\ UNCHANGED <<remote, safety_threshold, cycles, created, prev, now, max_backups, store, lock, outer>>

\* AdGuardHomeClientV2.sync_rules up to the first loop: list, plan, safety check
ListAndPlan(t) ==
    /\ cyc[t].pc = "loaded"
    /\ \E ok \in BOOLEAN :
          LET cur == get_rewrite_rules(remote, ok)
              c   == [cyc[t] EXCEPT !.current_rules = cur, !.list_ok = ok]
          IN  cyc' = [cyc EXCEPT ![t] =
                        IF ListAborts(cur)
                        THEN [c EXCEPT !.pc = "done", !.outcome = "list_failed"]
                        ELSE IF SafetyCheckFailed(c, safety_threshold)
                        THEN [c EXCEPT !.pc = "done", !.outcome = "safety_abort"]
                        ELSE [c EXCEPT !.pc = "apply"]]
    /\ UNCHANGED <<remote, files, safety_threshold, cycles, created, prev, now, max_backups, store, lock, outer>>

\* one iteration of "for domain in to_add_or_update": add_rewrite_rule
AddRule(t) ==
    /\ cyc[t].pc = "apply"
    /\ CurrentPhase(cyc[t]) = "add"
    /\ \E d \in Pending(cyc[t], "add"), ok \in BOOLEAN :
          /\ remote' = IF ok
                       THEN ProviderAdd(remote, AddPayload(d, cyc[t].target_rules[d]))
                       ELSE remote
          /\ created' = IF ok THEN created \cup {d} ELSE created
          /\ cyc' = [cyc EXCEPT
                       ![t].sent.add = @ \cup {d},
                       ![t].acked.add = IF ok THEN @ \cup {d} ELSE @]
    /\ UNCHANGED <<files, safety_threshold, cycles, prev, now, max_backups, store, lock, outer>>

\* one iteration of "for domain in to_update" that sends a request: update_rewrite_rule
UpdateRule(t) ==
    /\ cyc[t].pc = "apply"
    /\ CurrentPhase(cyc[t]) = "update"
    /\ \E d \in Pending(cyc[t], "update"), ok \in BOOLEAN :
          /\ IF UpdateFallsBackToAdd(d, cyc[t].current_rules)
             THEN /\ remote' = IF ok
                               THEN ProviderAdd(remote, AddPayload(d, cyc[t].target_rules[d]))
                               ELSE remote
                  /\ created' = IF ok THEN created \cup {d} ELSE created
             ELSE /\ \E flag \in UpdatedFlags(remote, d) :
                        remote' = IF ok
                                  THEN ProviderUpdate(remote,
                                           UpdatePayload(d, cyc[t].target_rules[d],
                                                         cyc[t].current_rules), flag)
                                  ELSE remote
                  /\ created' = created
          /\ cyc' = [cyc EXCEPT
                       ![t].sent.update = @ \cup {d},
                       ![t].acked.update = IF ok THEN @ \cup {d} ELSE @]
    /\ UNCHANGED <<files, safety_threshold, cycles, prev, now, max_backups, store, lock, outer>>

\* one iteration of "for domain in to_delete" that sends a request: delete_rewrite_rule
DeleteRule(t) ==
    /\ cyc[t].pc = "apply"
    /\ CurrentPhase(cyc[t]) = "delete"
    /\ \E d \in Pending(cyc[t], "delete"), ok \in BOOLEAN :
          /\ remote' = IF ok
                       THEN ProviderDelete(remote, DeletePayload(d, cyc[t].current_rules))
                       ELSE remote
          /\ cyc' = [cyc EXCEPT
                       ![t].sent.delete = @ \cup {d},
                       ![t].acked.delete = IF ok THEN @ \cup {d} ELSE @]
    /\ UNCHANGED <<files, safety_threshold, cycles, created, prev, now, max_backups, store, lock, outer>>

\* mutant: only the rules whose request did not fail are saved
SavedRules_withoutFailed(c) ==
    [d \in Domains |->
        IF d \in (c.sent.add \ c.acked.add) \cup (c.sent.update \ c.acked.update)
        THEN NoRule ELSE c.target_rules[d]]

\* self.rule_db.save_managed_rules(new_rules): the set handed to the store
SavedRules(c) == c.target_rules

\* sync_rules returns True; AdGuardDNSSync.sync_rules saves new_rules
Save(t) ==
    /\ cyc[t].pc = "apply"
    /\ CurrentPhase(cyc[t]) = "end"
    /\ lock = "free"
    /\ files' = SaveManagedRules(files, SavedRules(cyc[t]))
    /\ cyc' = [cyc EXCEPT ![t].pc = "done", ![t].outcome = "ok", ![t].saved = TRUE]
    /\ prev' = [prev EXCEPT !.last_saved = FileOf(SavedRules(cyc[t]))]
    /\ UNCHANGED <<remote, safety_threshold, cycles, created, now, max_backups, store, lock, outer>>

\* every request the cycle sent was acknowledged and the list succeeded
Healthy(c) == c.list_ok /\ c.acked = c.sent

\* the domains whose request was sent and not acknowledged ("Failed to add
\* rule", "Failed to update rule", "Failed to delete rule")
FailedRequests(c) ==
    (c.sent.add \ c.acked.add) \cup (c.sent.update \ c.acked.update)
        \cup (c.sent.delete \ c.acked.delete)

\* AdGuardDNSSync.sync_rules returns; the thread is free for the next cycle
Finish(t) ==
    /\ cyc[t].pc = "done"
    /\ prev' = [healthy      |-> Healthy(cyc[t]),
                target_rules |-> IF Healthy(cyc[t]) \/ cyc[t].outcome = "ok"
                                 THEN cyc[t].target_rules ELSE EmptyMap,
                failed       |-> IF cyc[t].outcome = "ok"
                                 THEN FailedRequests(cyc[t]) ELSE {},
                error        |-> IF cyc[t].outcome \in {"lock_timeout", "save_failed"}
                                 THEN cyc[t].outcome ELSE "none",
                thread       |-> t,
                desired_ever |-> IF cyc[t].saved
                                 THEN prev.desired_ever \cup keys(cyc[t].target_rules)
                                 ELSE prev.desired_ever,
                last_saved   |-> prev.last_saved]
    /\ cyc' = [cyc EXCEPT ![t] = IdleCycle]
    /\ UNCHANGED <<remote, files, safety_threshold, cycles, created, now, max_backups, store, lock, outer>>

Next ==
    \E t \in SeqThreads :
        \/ Observe(t)
        \/ Load(t)
        \/ ListAndPlan(t)
        \/ AddRule(t)
        \/ UpdateRule(t)
        \/ DeleteRule(t)
        \/ Save(t)
        \/ Finish(t)

Spec == Init /\ [][Next]_vars

(***************************************************************************)
(* Longer runs: the same cycle, MaxLongCycles of them, started on fewer    *)
(* provider states (every record the provider holds at the start is        *)
(* enabled).                                                               *)
(***************************************************************************)
\* the rules the provider may hold before the first cycle of a longer run
LongInitialRemoteRules == {RewriteRule("a1", TRUE), RewriteRule("a2", TRUE)}

LongInit ==
    /\ remote \in [Domains -> LongInitialRemoteRules \cup {NoRule}]
    /\ files = NoFiles
    /\ safety_threshold \in {t \in CandidateThresholds : ValidSafetyThreshold(t)}
    /\ cyc = [t \in Threads |-> IdleCycle]
    /\ cycles = 0
    /\ created = {}
    /\ prev = NoPrev
    /\ now = 0
    /\ max_backups = DefaultMaxBackups
    /\ store = IdleStore
    /\ lock = "free"
    /\ OuterIdle

LongNext ==
    \E t \in SeqThreads :
        \/ ObserveUpTo(t, MaxLongCycles)
        \/ Load(t)
        \/ ListAndPlan(t)
        \/ AddRule(t)
        \/ UpdateRule(t)
        \/ DeleteRule(t)
        \/ Save(t)
        \/ Finish(t)

SpecLong == LongInit /\ [][LongNext]_vars

(***************************************************************************)
(* Cycles with a failing store: the two threads run cycles side by side (a *)
(* delayed_sync thread is started by a change notification at any time), a *)
(* load may hold the store's lock for long, the lock may time out, and the *)
(* write of a save may fail.                                               *)
(***************************************************************************)
\* the observer reports exactly x, or nothing
FaultDnsResources ==
    {[d \in Domains |-> "none"],
     [d \in Domains |-> IF d = "x" THEN "a1" ELSE "none"]}

FaultInit ==
    /\ remote \in {[EmptyMap EXCEPT !["y"] = RewriteRule("a2", TRUE)],
                   [EmptyMap EXCEPT !["x"] = RewriteRule("a2", TRUE)]}
    /\ files = NoFiles
    /\ safety_threshold = MaxSafetyThreshold
    /\ cyc = [t \in Threads |-> IdleCycle]
    /\ cycles = 0
    /\ created = {}
    /\ prev = NoPrev
    /\ now = 0
    /\ max_backups = DefaultMaxBackups
    /\ store = IdleStore
    /\ lock = "free"
    /\ OuterIdle

\* _schedule_sync's delayed_sync thread or the periodic loop calls sync_rules
\* while the other thread may be in a cycle; at most n cycles are run
TriggeredObserve(t, n) ==
    /\ cyc[t].pc = "idle"
    /\ cycles < n
    /\ \E dns \in FaultDnsResources :
          cyc' = [cyc EXCEPT ![t] = [IdleCycle EXCEPT
                     !.pc = "observed",
                     !.target_rules = generate_rules(dns),
                     !.remote0 = remote]]
    /\ cycles' = cycles + 1
    /\ UNCHANGED <<remote, files, safety_threshold, created, prev, now, max_backups, store, lock, outer>>

\* load_managed_rules acquires the lock and is slow to read the files
LoadBegin(t) ==
    /\ cyc[t].pc = "observed"
    /\ lock = "free"
    /\ lock' = t
    /\ cyc' = [cyc EXCEPT ![t].pc = "loading"]
    /\ UNCHANGED <<remote, files, safety_threshold, cycles, created, prev, now, max_backups, store, outer>>

\* the slow load_managed_rules returns and releases the lock
LoadEnd(t) ==
    /\ cyc[t].pc = "loading"
    /\ LoadReturns(t)
    /\ lock' = "free"
    /\ UNCHANGED <<remote, safety_threshold, cycles, created, prev, now, max_backups, store, outer>>

\* mutant: the lock is acquired without a timeout
LockTimesOut_never(t) == FALSE

\* self._lock.acquire(timeout=self._lock_timeout) returns False: another
\* thread has held the lock for the whole timeout
LockTimesOut(t) == lock \notin {"free", t}

\* the exception leaves AdGuardDNSSync.sync_rules through "except Exception":
\* it is logged and the cycle returns False
CycleRaises(c, outcome) == [c EXCEPT !.pc = "done", !.outcome = outcome]

\* load_managed_rules raises RuntimeError: the lock was not acquired in time
LoadLockTimeout(t) ==
    /\ cyc[t].pc = "observed"
    /\ LockTimesOut(t)
    /\ cyc' = [cyc EXCEPT ![t] = CycleRaises(cyc[t], "lock_timeout")]
    /\ UNCHANGED <<remote, files, safety_threshold, cycles, created, prev, now, max_backups, store, lock, outer>>

\* save_managed_rules raises RuntimeError: the lock was not acquired in time
SaveLockTimeout(t) ==
    /\ cyc[t].pc = "apply"
    /\ CurrentPhase(cyc[t]) = "end"
    /\ LockTimesOut(t)
    /\ cyc' = [cyc EXCEPT ![t] = CycleRaises(cyc[t], "lock_timeout")]
    /\ UNCHANGED <<remote, files, safety_threshold, cycles, created, prev, now, max_backups, store, lock, outer>>

\* the files after a save_managed_rules whose _save_to_file raised: the
\* backup has been made; the temporary file is as it was (open failed), is
\* half-written (the write failed) or complete (the rename failed)
SaveFailedOutcomes(f, rules) ==
    LET g == IF Exists(f.db) THEN CreateBackup(f) ELSE f
    IN  {g, [g EXCEPT !.tmp = Partial], [g EXCEPT !.tmp = FileOf(rules)]}

\* save_managed_rules raises: writing the new set failed
SaveWriteFails(t) ==
    /\ cyc[t].pc = "apply"
    /\ CurrentPhase(cyc[t]) = "end"
    /\ lock = "free"
    /\ files' \in SaveFailedOutcomes(files, SavedRules(cyc[t]))
    /\ cyc' = [cyc EXCEPT ![t] = CycleRaises(cyc[t], "save_failed")]
    /\ UNCHANGED <<remote, safety_threshold, cycles, created, prev, now, max_backups, store, lock, outer>>

\* the steps of thread t in a run with a failing store
FaultStep(t) ==
    \/ TriggeredObserve(t, MaxFaultCycles)
    \/ Load(t)
    \/ LoadBegin(t)
    \/ LoadEnd(t)
    \/ LoadLockTimeout(t)
    \/ ListAndPlan(t)
    \/ AddRule(t)
    \/ UpdateRule(t)
    \/ DeleteRule(t)
    \/ Save(t)
    \/ SaveLockTimeout(t)
    \/ SaveWriteFails(t)
    \/ Finish(t)

FaultNext == \E t \in Threads : FaultStep(t)

SpecFaults == FaultInit /\ [][FaultNext]_vars

(***************************************************************************)
(* The store on its own, one file operation per step: load_managed_rules   *)
(* and save_managed_rules called one after the other by one caller, with   *)
(* the clock ticking between calls, files damaged from outside, disk       *)
(* errors and kills of the process.  shutil.copy2 opens its destination    *)
(* for writing (the file is partial) and then writes it; shutil.move within*)
(* one directory is a rename.                                              *)
(***************************************************************************)
\* the rule sets the caller saves
StoreSets ==
    {EmptyMap,
     [EmptyMap EXCEPT !["x"] = RewriteRule("a1", TRUE)],
     [EmptyMap EXCEPT !["x"] = RewriteRule("a1", TRUE),
                      !["y"] = RewriteRule("a1", TRUE)]}

\* the retentions (DB_MAX_BACKUPS) the store is run with
StoreRetentions == {1, 3}

StoreInit ==
    /\ remote = EmptyMap
    /\ files = NoFiles
    /\ safety_threshold = DefaultSafetyThreshold
    /\ cyc = [t \in Threads |-> IdleCycle]
    /\ cycles = 0
    /\ created = {}
    /\ prev = NoPrev
    /\ now = 0
    /\ max_backups \in StoreRetentions
    /\ store = IdleStore
    /\ lock = "free"
    /\ OuterIdle

StoreUnchanged == UNCHANGED <<remote, safety_threshold, cyc, cycles, created, prev, max_backups, lock, outer>>

\* the call returns
Returned(st) == [st EXCEPT !.pc = "idle", !.status = "returned"]

\* the call raises
Raised(st) == [st EXCEPT !.pc = "idle", !.status = "raised", !.clean = FALSE, !.saves = 0]

\* a second passes between two calls; the clock is run up to n
TickUpTo(n) ==
    /\ store.pc = "idle"
    /\ now < n
    /\ now' = now + 1
    /\ UNCHANGED <<files, store>>
    /\ StoreUnchanged

Tick == TickUpTo(MaxClock)

\* save_managed_rules(rules) is called; "if os.path.exists(self.db_file)";
\* at most n calls are made
StartSaveUpTo(n) ==
    /\ store.pc = "idle"
    /\ store.calls < n
    /\ \E rules \in StoreSets :
          store' = [store EXCEPT
                       !.pc = IF Exists(files.db) THEN "backup_gen_open" ELSE "tmp_open",
                       !.call = "save", !.status = "running", !.rules = rules,
                       !.result = EmptyMap, !.src = Absent, !.ts = now,
                       !.files0 = files, !.calls = @ + 1,
                       !.cut = FALSE, !.aftercut = FALSE, !.faulted = FALSE]
    /\ UNCHANGED <<files, now>>
    /\ StoreUnchanged

StoreStartSave == StartSaveUpTo(MaxStoreCalls)

\* _create_backup: shutil.copy2(self.db_file, backup_name) opens backup_name
SaveBackupGenOpen ==
    /\ store.pc = "backup_gen_open"
    /\ files' = [files EXCEPT !.gens = PutNamed(@, store.ts, Partial)]
    /\ store' = [store EXCEPT !.pc = "backup_gen_copy"]
    /\ UNCHANGED now
    /\ StoreUnchanged

\* _create_backup: shutil.copy2(self.db_file, backup_name) has written it
SaveBackupGenCopy ==
    /\ store.pc = "backup_gen_copy"
    /\ files' = [files EXCEPT !.gens = PutNamed(@, store.ts, files.db)]
    /\ store' = [store EXCEPT !.pc = "backup_open"]
    /\ UNCHANGED now
    /\ StoreUnchanged

\* _create_backup: shutil.copy2(self.db_file, self.backup_file) opens it
SaveBackupOpen ==
    /\ store.pc = "backup_open"
    /\ files' = [files EXCEPT !.backup = Partial]
    /\ store' = [store EXCEPT !.pc = "backup_copy"]
    /\ UNCHANGED now
    /\ StoreUnchanged

\* _create_backup: shutil.copy2(self.db_file, self.backup_file) has written it
SaveBackupCopy ==
    /\ store.pc = "backup_copy"
    /\ files' = [files EXCEPT !.backup = files.db]
    /\ store' = [store EXCEPT !.pc = "backup_prune"]
    /\ UNCHANGED now
    /\ StoreUnchanged

\* _create_backup: self._cleanup_old_backups()
SaveBackupPrune ==
    /\ store.pc = "backup_prune"
    /\ files' = CleanupOldBackups(files)
    /\ store' = [store EXCEPT !.pc = "tmp_open"]
    /\ UNCHANGED now
    /\ StoreUnchanged

\* _save_to_file: open(temp_file, 'w')
SaveTmpOpen ==
    /\ store.pc = "tmp_open"
    /\ files' = [files EXCEPT !.tmp = Partial]
    /\ store' = [store EXCEPT !.pc = "tmp_write"]
    /\ UNCHANGED now
    /\ StoreUnchanged

\* _save_to_file: json.dump(data, f) and the file is closed
SaveTmpWrite ==
    /\ store.pc = "tmp_write"
    /\ files' = [files EXCEPT !.tmp = FileOf(store.rules)]
    /\ store' = [store EXCEPT !.pc = "rename"]
    /\ UNCHANGED now
    /\ StoreUnchanged

\* _save_to_file: shutil.move(temp_file, file_path); save_managed_rules returns
SaveRename ==
    /\ store.pc = "rename"
    /\ files' = [files EXCEPT !.db = files.tmp, !.tmp = Absent]
    /\ store' = [Returned(store) EXCEPT
                    !.saves = IF store.clean THEN @ + 1 ELSE 0]
    /\ UNCHANGED now
    /\ StoreUnchanged

\* load_managed_rules() is called
StoreStartLoad ==
    /\ store.pc = "idle"
    /\ store.calls < MaxStoreCalls
    /\ store' = [store EXCEPT
                    !.pc = "load_primary", !.call = "load", !.status = "running",
                    !.rules = EmptyMap, !.result = EmptyMap, !.src = Absent,
                    !.files0 = files, !.calls = @ + 1, !.clean = FALSE,
                    !.saves = 0, !.cut = FALSE, !.aftercut = store.cut,
                    !.faulted = FALSE]
    /\ UNCHANGED <<files, now>>
    /\ StoreUnchanged

\* the copy shutil.copy2(file, self.db_file) begins: the primary is opened
BeginRestore(st, file) ==
    [st EXCEPT !.pc = "restore_copy", !.src = file, !.result = file.rules]

\* load_managed_rules up to its first change of a file: the primary is read
\* and returned, or renamed away, or (absent) the latest backup is read
LoadPrimary ==
    /\ store.pc = "load_primary"
    /\ IF Exists(files.db)
       THEN IF Parses(files.db)
            THEN IF keys(files.db.rules) # {}
                 THEN /\ files' = files
                      /\ store' = Returned([store EXCEPT !.result = files.db.rules])
                 ELSE /\ files' = CleanupCorruptedDb(files)
                      /\ store' = Returned(store)
            ELSE /\ files' = CleanupCorruptedDb(files)
                 /\ store' = [store EXCEPT !.pc = "restore_pick"]
       ELSE IF Exists(files.backup)
            THEN IF Parses(files.backup)
                 THEN IF keys(files.backup.rules) # {}
                      THEN /\ files' = [files EXCEPT !.db = Partial]
                           /\ store' = BeginRestore(store, files.backup)
                      ELSE /\ files' = files
                           /\ store' = Returned(store)
                 ELSE /\ files' = CleanupCorruptedBackup(files)
                      /\ store' = Returned(store)
            ELSE /\ files' = files
                 /\ store' = Returned(store)
    /\ UNCHANGED now
    /\ StoreUnchanged

\* _try_backup_restore up to its first change of a file: the backups are read
\* newest name first, then the latest backup
LoadRestorePick ==
    /\ store.pc = "restore_pick"
    /\ LET nf == BackupGlob(files)
           i  == FirstParsing(nf)
       IN  IF i # 0
           THEN /\ files' = [files EXCEPT !.db = Partial]
                /\ store' = BeginRestore(store, nf[i].file)
           ELSE IF Exists(files.backup) /\ Parses(files.backup)
                THEN /\ files' = [files EXCEPT !.db = Partial]
                     /\ store' = BeginRestore(store, files.backup)
                ELSE /\ files' = files
                     /\ store' = Returned(store)
    /\ UNCHANGED now
    /\ StoreUnchanged

\* shutil.copy2(backup, self.db_file) has written the primary; load returns
LoadRestoreCopy ==
    /\ store.pc = "restore_copy"
    /\ files' = [files EXCEPT !.db = store.src]
    /\ store' = Returned(store)
    /\ UNCHANGED now
    /\ StoreUnchanged

BackupSteps ==
    {"backup_gen_open", "backup_gen_copy", "backup_open", "backup_copy", "backup_prune"}

WriteSteps == {"tmp_open", "tmp_write", "rename", "restore_copy"}

\* the file operation the call is at fails (OSError): inside _create_backup
\* the exception is logged and save goes on with _save_to_file; elsewhere it
\* leaves the call
StoreFault ==
    /\ store.pc \in BackupSteps \cup WriteSteps
    /\ store.faults < MaxStoreFaults
    /\ store' = IF store.pc \in BackupSteps
                THEN [store EXCEPT !.pc = "tmp_open", !.faults = @ + 1,
                                   !.clean = FALSE, !.saves = 0, !.faulted = TRUE]
                ELSE [Raised(store) EXCEPT !.faults = @ + 1, !.faulted = TRUE]
    /\ UNCHANGED <<files, now>>
    /\ StoreUnchanged

\* the process is killed during a call; a new process makes the next call
StoreKill ==
    /\ store.pc # "idle"
    /\ store.faults < MaxStoreFaults
    /\ store' = [store EXCEPT !.pc = "idle", !.status = "killed",
                              !.faults = @ + 1, !.clean = FALSE, !.saves = 0]
    /\ UNCHANGED <<files, now>>
    /\ StoreUnchanged

\* the last call was a save of a non-empty set and it returned
SavedNonEmpty(st) ==
    st.call = "save" /\ st.status = "returned" /\ keys(st.rules) # {}

\* between two calls a file is damaged from outside (truncated, overwritten
\* with garbage): the primary, the latest backup or a timestamped backup
DamageFile ==
    /\ store.pc = "idle"
    /\ store.faults < MaxStoreFaults
    /\ \/ /\ Exists(files.db)
          /\ files' = [files EXCEPT !.db = Corrupt]
          /\ store' = [store EXCEPT !.faults = @ + 1, !.clean = FALSE, !.saves = 0,
                                    !.cut = SavedNonEmpty(store)]
       \/ /\ Exists(files.backup)
          /\ files' = [files EXCEPT !.backup = Corrupt]
          /\ store' = [store EXCEPT !.faults = @ + 1, !.clean = FALSE, !.saves = 0,
                                    !.cut = FALSE]
       \/ \E i \in 1..Len(files.gens) :
             /\ files' = [files EXCEPT !.gens[i].file = Corrupt]
             /\ store' = [store EXCEPT !.faults = @ + 1, !.clean = FALSE, !.saves = 0,
                                       !.cut = FALSE]
    /\ UNCHANGED now
    /\ StoreUnchanged

StoreNext ==
    \/ Tick
    \/ StoreStartSave
    \/ SaveBackupGenOpen
    \/ SaveBackupGenCopy
    \/ SaveBackupOpen
    \/ SaveBackupCopy
    \/ SaveBackupPrune
    \/ SaveTmpOpen
    \/ SaveTmpWrite
    \/ SaveRename
    \/ StoreStartLoad
    \/ LoadPrimary
    \/ LoadRestorePick
    \/ LoadRestoreCopy
    \/ StoreFault
    \/ StoreKill
    \/ DamageFile

SpecStore == StoreInit /\ [][StoreNext]_vars

(***************************************************************************)
(* Backup rotation: nothing but saves that succeed, up to MaxRotationSaves *)
(* of them, any number of them within one second.                          *)
(***************************************************************************)
RotationNext ==
    \/ TickUpTo(MaxRotationClock)
    \/ StartSaveUpTo(MaxRotationSaves)
    \/ SaveBackupGenOpen
    \/ SaveBackupGenCopy
    \/ SaveBackupOpen
    \/ SaveBackupCopy
    \/ SaveBackupPrune
    \/ SaveTmpOpen
    \/ SaveTmpWrite
    \/ SaveRename

SpecRotation == StoreInit /\ [][RotationNext]_vars

\* the step in which a call returns
Returns(call) ==
    /\ store.pc # "idle" /\ store.call = call
    /\ store'.pc = "idle" /\ store'.status = "returned"

\* a call that met no failing file operation ends with the files and the
\* result that the operators LoadManagedRules and SaveManagedRules give
StepsAgree ==
    [][/\ (Returns("save") /\ ~store'.faulted)
            => files' = SaveManagedRules(store.files0, store.rules)
       /\ (Returns("load") /\ ~store'.faulted)
            => /\ files' = LoadManagedRules(store.files0)[2]
               /\ store'.result = LoadManagedRules(store.files0)[1]]_vars

(***************************************************************************)
(* Properties                                                              *)
(***************************************************************************)
\* the cycle of thread t has loaded, listed and planned
Planned(c) == c.pc \in {"apply", "done"}

AllSent(c) == c.sent.add \cup c.sent.update \cup c.sent.delete

\* C1: every delete request of a cycle targets a domain that is in the
\* ManagedSet loaded at the start of the cycle and not in its DesiredSet; a
\* domain of RemoteSet that is not in ManagedSet is never the target of a delete.
C1_DeleteOnlyManagedNotDesired ==
    \A t \in Threads :
        LET c == cyc[t]
        IN  /\ c.sent.delete \subseteq (keys(c.managed_rules) \ keys(c.target_rules))
            /\ \A d \in keys(c.current_rules) \ keys(c.managed_rules) :
                   d \notin c.sent.delete

\* C1 witness: a delete request was sent while the provider holds a record
\* that is neither managed nor desired.
C1_Witness ==
    \E t \in Threads :
        LET c == cyc[t]
        IN  /\ c.sent.delete # {}
            /\ keys(c.current_rules) \ (keys(c.managed_rules) \cup keys(c.target_rules)) # {}

\* C2 (as claimed): across all cycles a delete request is issued for a domain
\* only if an earlier add request of the engine for it was acknowledged.
C2_DeleteOnlyEngineCreated ==
    \A t \in Threads : cyc[t].sent.delete \subseteq created

\* C3: a provider record whose domain is in neither DesiredSet nor ManagedSet
\* receives no request in the cycle and its content stays what it was when
\* the cycle started.
C3_UnmanagedUndesiredUntouched ==
    \A t \in Threads :
        LET c == cyc[t]
        IN  c.pc \in {"loaded", "apply", "done"} =>
              \A d \in keys(c.remote0) \ (keys(c.target_rules) \cup keys(c.managed_rules)) :
                  /\ d \notin AllSent(c)
                  /\ remote[d] = c.remote0[d]

\* C3 witness: a cycle has had requests acknowledged while the provider holds
\* a record that is neither desired nor managed.
C3_Witness ==
    \E t \in Threads :
        LET c == cyc[t]
        IN  /\ c.pc = "done"
            /\ c.acked.add # {} /\ c.acked.delete # {}
            /\ keys(c.remote0) \ (keys(c.target_rules) \cup keys(c.managed_rules)) # {}

\* C4: when ManagedSet is non-empty and |toDelete| > safetyThreshold * |ManagedSet|
\* the cycle sends no request at all, does not save, and the store's files
\* stay as they were, the primary still holding the loaded ManagedSet.
C4_SafetyGuardAborts ==
    \A t \in Threads :
        LET c == cyc[t]
            M == keys(c.managed_rules)
            D == keys(c.target_rules)
        IN  (/\ c.pc \in {"loaded", "apply", "done"}
             /\ M # {}
             /\ Cardinality(M \ D) * 10 > Cardinality(M) * safety_threshold)
            => /\ c.pc # "apply"
               /\ c.sent = NoRequests
               /\ ~c.saved
               /\ files = c.files1
               /\ files.db = FileOf(c.managed_rules)

\* C4 witness: a cycle whose list succeeded and that had rules to add was
\* aborted by the safety check, under the default threshold.
C4_Witness ==
    \E t \in Threads :
        LET c == cyc[t]
        IN  /\ c.pc = "done"
            /\ c.outcome = "safety_abort"
            /\ c.list_ok
            /\ to_add_or_update(c) # {}
            /\ safety_threshold = DefaultSafetyThreshold

\* C5 (as claimed): under every accepted threshold a cycle whose DesiredSet is
\* empty while ManagedSet is non-empty sends no delete request.
C5_NoDeleteOnEmptyDesired ==
    \A t \in Threads :
        LET c == cyc[t]
        IN  (keys(c.target_rules) = {} /\ keys(c.managed_rules) # {})
            => c.sent.delete = {}

\* C6: if retrieving RemoteSet fails, the cycle sends no request and does not
\* write the store.
C6_ListFailureAborts ==
    \A t \in Threads :
        LET c == cyc[t]
        IN  (Planned(c) /\ ~c.list_ok)
            => /\ c.pc = "done"
               /\ c.outcome = "list_failed"
               /\ c.sent = NoRequests
               /\ ~c.saved
               /\ files = c.files1

\* C6 witness: the list failed in a cycle that had rules to create and a
\* provider that holds records.
C6_Witness ==
    \E t \in Threads :
        LET c == cyc[t]
        IN  /\ c.pc = "done"
            /\ ~c.list_ok
            /\ keys(c.target_rules) # {}
            /\ keys(remote) # {}

\* C7 (as claimed): a list that succeeds with zero records is not an abort;
\* the diff is computed against the empty RemoteSet and every domain of
\* DesiredSet receives a create request.
C7_EmptyListIsNotAbort ==
    \A t \in Threads :
        LET c == cyc[t]
            M == keys(c.managed_rules)
            D == keys(c.target_rules)
        IN  (/\ c.pc = "done"
             /\ c.list_ok
             /\ keys(c.current_rules) = {}
             /\ ~(Cardinality(M \ D) * 10 > Cardinality(M) * safety_threshold))
            => /\ c.outcome = "ok"
               /\ c.sent.add = D

\* the remote rule of d differs from the desired rule in answer or enabled flag
Differs(c, d) ==
    \/ c.current_rules[d].answer # c.target_rules[d].answer
    \/ c.current_rules[d].enabled # c.target_rules[d].enabled

\* C8 (as claimed): in a non-aborted cycle the requests issued are exactly a
\* create for each domain of Desired - Remote, an update for each domain of
\* Desired /\ Remote whose rules differ, and a delete for each domain of
\* Managed - Desired.
C8_ExactRequests_AsClaimed ==
    \A t \in Threads :
        LET c == cyc[t]
            D == keys(c.target_rules)
            R == keys(c.current_rules)
            M == keys(c.managed_rules)
        IN  (c.pc = "done" /\ c.outcome = "ok")
            => /\ c.sent.add = D \ R
               /\ c.sent.update = {d \in D \cap R : Differs(c, d)}
               /\ c.sent.delete = M \ D

\* C8 (amended): in a non-aborted cycle the requests issued are exactly a
\* create for each domain of Desired - Remote, an update for each domain of
\* Desired /\ Remote whose rules differ in answer or enabled flag, and a delete
\* for each domain of Managed - Desired that RemoteSet holds; a domain of
\* Managed - Desired that RemoteSet does not hold gets no request.
C8_ExactRequests ==
    \A t \in Threads :
        LET c == cyc[t]
            D == keys(c.target_rules)
            R == keys(c.current_rules)
            M == keys(c.managed_rules)
        IN  (c.pc = "done" /\ c.outcome = "ok")
            => /\ c.sent.add = D \ R
               /\ c.sent.update = {d \in D \cap R : Differs(c, d)}
               /\ c.sent.delete = (M \ D) \cap R

\* C8 witness: the three-way diff scenario, Desired {x, y}, Remote {x (same), z},
\* Managed {z}: create = {y}, update = {}, delete = {z}.
C8_Witness ==
    \E t \in Threads :
        LET c == cyc[t]
        IN  /\ c.pc = "done" /\ c.outcome = "ok"
            /\ keys(c.target_rules) = {"x", "y"}
            /\ keys(c.current_rules) = {"x", "z"}
            /\ keys(c.managed_rules) = {"z"}
            /\ c.current_rules["x"] = c.target_rules["x"]
            /\ c.sent = [add |-> {"y"}, update |-> {}, delete |-> {"z"}]

\* C9 (as claimed): a cycle that follows a cycle with the same observer result,
\* in which the provider answered every call, sends no request.
C9_Idempotent ==
    \A t \in Threads :
        LET c == cyc[t]
        IN  (/\ c.pc \in {"observed", "loaded", "apply", "done"}
             /\ prev.healthy
             /\ c.target_rules = prev.target_rules)
            => c.sent = NoRequests

\* C10: no delete request is sent before every create and every update of the
\* cycle has been attempted, and no update before every create.
C10_PhaseOrder ==
    \A t \in Threads :
        LET c == cyc[t]
            D == keys(c.target_rules)
            R == keys(c.current_rules)
        IN  /\ c.sent.delete # {} =>
                 /\ c.sent.add = D \ R
                 /\ c.sent.update = {d \in D \cap R : Differs(c, d)}
            /\ c.sent.update # {} => c.sent.add = D \ R

\* C10 witness: a cycle that is still applying has sent a delete after a
\* create and an update.
C10_Witness ==
    \E t \in Threads :
        LET c == cyc[t]
        IN  /\ c.pc = "apply"
            /\ c.sent.add # {}
            /\ c.sent.update # {}
            /\ c.sent.delete # {}


\* C11: in every cycle that is aborted neither by the list check nor by the
\* safety guard the store is written at the end with the new ManagedSet equal
\* to the DesiredSet, whatever subset of the requests failed.
C11_PartialApplyResilience ==
    \A t \in Threads :
        LET c == cyc[t]
        IN  (/\ c.pc = "done"
             /\ ~ListAborts(c.current_rules)
             /\ ~SafetyCheckFailed(c, safety_threshold))
            => /\ c.saved
               /\ files.db = FileOf(c.target_rules)

\* C11 witness: the update of one domain failed, the create of another was
\* acknowledged, and the primary holds both.
C11_Witness ==
    \E t \in Threads :
        LET c == cyc[t]
        IN  /\ c.pc = "done" /\ c.saved
            /\ \E x \in c.sent.update \ c.acked.update, y \in c.acked.add :
                   /\ x \in current_domains(c)
                   /\ {x, y} \subseteq keys(files.db.rules)

\* C12 (as claimed): a domain whose create, update or delete request failed
\* in a cycle that ran to its end gets a request again in the next cycle that
\* runs to its end on the same DesiredSet (the provider is touched by nobody
\* in between).
C12_FailedRequestRetried ==
    \A t \in Threads :
        LET c == cyc[t]
        IN  (/\ c.pc = "done" /\ c.outcome = "ok"
             /\ c.target_rules = prev.target_rules)
            => prev.failed \subseteq AllSent(c)


\* the persisted ManagedSet: what load_managed_rules returns from these files
ManagedView(f) == LoadManagedRules(f)[1]

\* the domains of the DesiredSets of the cycles that have saved so far
DesiredEver ==
    prev.desired_ever
        \cup UNION {keys(cyc[t].target_rules) : t \in {u \in Threads : cyc[u].saved}}

\* C13 (as claimed): every key of the persisted ManagedSet was a key of the
\* DesiredSet of an earlier cycle that ran to its end, and the persisted
\* ManagedSet changes only in the step that ends such a cycle, to the
\* DesiredSet of that cycle.
C13_ManagedSetLifecycle ==
    /\ [](keys(ManagedView(files)) \subseteq DesiredEver)
    /\ [][ManagedView(files') # ManagedView(files)
            => \E t \in Threads :
                  /\ ~cyc[t].saved /\ cyc'[t].saved
                  /\ ManagedView(files') = cyc'[t].target_rules]_vars


\* C14 (as claimed): at every step of save and of load, a kill included, the
\* primary is absent or holds one complete serialized ManagedSet, never a
\* half-written one; during a save it is what it was before or the new set.
C14_PrimaryNeverHalfWritten ==
    /\ files.db.st # "partial"
    /\ (store.call = "save" /\ store.pc # "idle")
          => files.db \in {store.files0.db, FileOf(store.rules)}

\* C15 (as claimed): a save of a non-empty set returned, then the primary was
\* truncated; the load that follows raises nothing and returns a non-empty
\* set.
C15_TruncationRoundTrip ==
    (store.call = "load" /\ store.pc = "idle" /\ store.aftercut
        /\ store.status # "killed")
    => /\ store.status = "returned"
       /\ store.result # EmptyMap

\* the timestamped backups that parse, by position in name order
ParsingGens(f) == {i \in 1..Len(f.gens) : Parses(f.gens[i].file)}

\* the newest timestamped backup that parses
NewestParsing(f) ==
    f.gens[CHOOSE i \in ParsingGens(f) : \A j \in ParsingGens(f) : j <= i].file

\* a load found the primary present and unparseable, and returned
LoadedBrokenPrimary ==
    /\ store.call = "load" /\ store.pc = "idle" /\ store.status = "returned"
    /\ Exists(store.files0.db) /\ ~Parses(store.files0.db)

C17_BackupBeforeOverwrite ==
    [][(Returns("save") /\ Exists(store.files0.db))
          => /\ files'.backup = store.files0.db
             /\ \E i \in 1..Len(files'.gens) :
                   files'.gens[i] = Named(store.ts, store.files0.db)]_vars

\* C18 (as claimed): after saves that all succeeded at most max_backups
\* timestamped backups exist, each pruning leaves the newest of them, and
\* with retention 3 five saves leave exactly 3.
C18_BackupRotation ==
    store.clean =>
        /\ store.pc = "idle" => Len(files.gens) <= max_backups
        /\ (store.pc = "tmp_open" /\ Exists(store.files0.db))
              => files.gens = Newest(PutNamed(store.files0.gens, store.ts,
                                              store.files0.db), max_backups)
        /\ (store.pc = "idle" /\ max_backups = 3 /\ store.saves = 5)
              => Len(files.gens) = 3


\* The step of a save whose write fails: the exception reaches the cycle,
\* which ends reporting failure without having saved, and the primary is the
\* file it was before the save, complete.
FailedSaveKeepsPrimary ==
    [][\A t \in Threads :
          (cyc[t].outcome # "save_failed" /\ cyc'[t].outcome = "save_failed")
          => /\ cyc'[t].pc = "done"
             /\ ~cyc'[t].saved
             /\ files'.db = files.db
             /\ files'.db.st # "partial"]_vars

\* C19: when writing the new ManagedSet fails during save, the cycle ends
\* reporting failure without having saved, and the primary is the file the
\* last save that returned wrote.
C19_PrimaryIsLastSaved ==
    \A t \in Threads :
        cyc[t].outcome = "save_failed"
        => /\ cyc[t].pc = "done"
           /\ ~cyc[t].saved
           /\ prev.last_saved # Absent => files.db = prev.last_saved

\* the store call thread t is about to make
AtLoad(t) == cyc[t].pc = "observed"

AtSave(t) == cyc[t].pc = "apply" /\ CurrentPhase(cyc[t]) = "end"

\* C20: a thread at load or save is never blocked: it gets the lock or the
\* call raises; a cycle that ended by the lock's timeout has not saved and
\* reports failure; the thread can finish it and start the next cycle, which
\* begins from scratch.
C20_LockTimeoutRaises ==
    \A t \in Threads :
        /\ AtLoad(t) => ENABLED (Load(t) \/ LoadLockTimeout(t))
        /\ AtSave(t) => ENABLED (Save(t) \/ SaveLockTimeout(t))
        /\ cyc[t].outcome = "lock_timeout" =>
              /\ cyc[t].pc = "done"
              /\ ~cyc[t].saved
              /\ ENABLED Finish(t)
        /\ cyc[t].pc = "idle" =>
              /\ cyc[t] = IdleCycle
              /\ cycles < MaxFaultCycles => ENABLED TriggeredObserve(t, MaxFaultCycles)

\* C20 witness: the last cycle that finished ended by the lock's timeout and
\* the thread that ran it has since run another cycle to its end and saved.
C20_Witness ==
    /\ prev.error = "lock_timeout"
    /\ prev.thread \in Threads
    /\ cyc[prev.thread].pc = "done"
    /\ cyc[prev.thread].outcome = "ok"
    /\ cyc[prev.thread].saved

\* thread t is between the start and the end of a cycle
InCycle(t) == cyc[t].pc \in {"observed", "loading", "loaded", "apply"}

\* C21: at most one thread is between the start and the end of a cycle.
C21_CyclesMutuallyExclusive ==
    Cardinality({t \in Threads : InCycle(t)}) <= 1

(***************************************************************************)
(* Change notifications: the watcher calls handle_resource_change for      *)
(* every event; each call starts a delayed_sync thread that sleeps         *)
(* change_wait_time and then calls sync_rules.  Of the cycle such a thread *)
(* runs only the start and the end are kept here.                          *)
(***************************************************************************)
\* the engine and its store, left alone
engine ==
    <<remote, files, safety_threshold, cyc, cycles, created, prev,
      max_backups, store, lock>>

EngineAtRest ==
    /\ remote = EmptyMap
    /\ files = NoFiles
    /\ safety_threshold = DefaultSafetyThreshold
    /\ cyc = [t \in Threads |-> IdleCycle]
    /\ cycles = 0
    /\ created = {}
    /\ prev = NoPrev
    /\ max_backups = DefaultMaxBackups
    /\ store = IdleStore
    /\ lock = "free"

\* values of APP_CHANGE_WAIT_TIME the runs are made with, in seconds
ChangeWaitTimes == {1, 2}

DebounceInit ==
    /\ EngineAtRest
    /\ now = 0
    /\ delayed = NoDelayed
    /\ proc = InitialProc
    /\ request = NoRequest
    /\ \E w \in ChangeWaitTimes : config = [DefaultConfig EXCEPT !.change_wait_time = w]
    /\ metrics = NoMetrics
    /\ health = NoHealth

DebounceUnchanged == UNCHANGED <<engine, proc, request, config, metrics, health>>

\* _schedule_sync: threading.Thread(target=delayed_sync).start()
ScheduleSync(d, wake) == Append(d.sleeping, wake)

\* handle_resource_change: the watcher reports an event
HandleResourceChange ==
    /\ delayed.notifications < MaxNotifications
    /\ delayed' = [delayed EXCEPT
          !.sleeping = ScheduleSync(delayed, now + config.change_wait_time),
          !.notifications = @ + 1,
          !.last = now,
          !.windows = IF delayed.last = -1
                         \/ now - delayed.last >= config.change_wait_time
                      THEN @ + 1 ELSE @]
    /\ UNCHANGED now
    /\ DebounceUnchanged

\* delayed_sync: time.sleep(change_wait_time) returns and sync_rules is called
DelayedSyncWakes ==
    /\ delayed.sleeping # <<>>
    /\ Head(delayed.sleeping) <= now
    /\ delayed' = [delayed EXCEPT
          !.sleeping = Tail(@), !.running = @ + 1, !.started = @ + 1]
    /\ UNCHANGED now
    /\ DebounceUnchanged

\* delayed_sync: sync_rules returns and the thread ends
DelayedSyncReturns ==
    /\ delayed.running > 0
    /\ delayed' = [delayed EXCEPT !.running = @ - 1]
    /\ UNCHANGED now
    /\ DebounceUnchanged

\* a second passes
DebounceTick ==
    /\ now < MaxDebounceClock
    /\ now' = now + 1
    /\ UNCHANGED delayed
    /\ DebounceUnchanged

DebounceNext ==
    \/ HandleResourceChange
    \/ DelayedSyncWakes
    \/ DelayedSyncReturns
    \/ DebounceTick

SpecDebounce == DebounceInit /\ [][DebounceNext]_vars

\* C22: the notifications of one quiet window cause exactly one cycle: the
\* cycles started by notifications and those still pending are as many as the
\* windows opened, and at most one is pending.
C22_Debounce ==
    /\ delayed.started + Len(delayed.sleeping) = delayed.windows
    /\ Len(delayed.sleeping) <= 1

(***************************************************************************)
(* Shutdown: the main loop is interrupted and calls shutdown(), which sets *)
(* shutdown_event and joins the threads of self.threads, each with         *)
(* thread_join_timeout; then run() returns and the process exits, ending   *)
(* its daemon threads where they are.  The periodic thread and a           *)
(* delayed_sync thread run cycles meanwhile.  Time passes only inside join.*)
(***************************************************************************)
\* values of APP_THREAD_JOIN_TIMEOUT the runs are made with, in seconds
JoinTimeouts == {1, 2}

ShutdownInit ==
    /\ remote \in {[EmptyMap EXCEPT !["y"] = RewriteRule("a2", TRUE)],
                   [EmptyMap EXCEPT !["x"] = RewriteRule("a2", TRUE)]}
    /\ files = NoFiles
    /\ safety_threshold = MaxSafetyThreshold
    /\ cyc = [t \in Threads |-> IdleCycle]
    /\ cycles = 0
    /\ created = {}
    /\ prev = NoPrev
    /\ now = 0
    /\ max_backups = DefaultMaxBackups
    /\ store = IdleStore
    /\ lock = "free"
    /\ delayed = NoDelayed
    /\ proc = InitialProc
    /\ request = NoRequest
    /\ \E j \in JoinTimeouts : config = [DefaultConfig EXCEPT !.thread_join_timeout = j]
    /\ metrics = NoMetrics
    /\ health = NoHealth

ProcUnchanged ==
    UNCHANGED <<engine, now, delayed, request, config, metrics, health>>

Running == proc.phase # "exited"

\* periodic_sync: shutdown_event.wait(sync_interval) returns False and
\* sync_rules is called
PeriodicObserve ==
    /\ Running
    /\ "periodic-sync" \in proc.alive
    /\ ~proc.shutdown_event
    /\ TriggeredObserve("periodic", MaxShutdownCycles)

\* periodic_sync: shutdown_event is found set and the loop ends
PeriodicExits ==
    /\ Running
    /\ "periodic-sync" \in proc.alive
    /\ proc.shutdown_event
    /\ cyc["periodic"].pc = "idle"
    /\ proc' = [proc EXCEPT !.alive = @ \ {"periodic-sync"}]
    /\ ProcUnchanged

\* a delayed_sync thread calls sync_rules
DelayedObserve ==
    /\ Running
    /\ TriggeredObserve("debounce", MaxShutdownCycles)

\* the steps of a cycle in a process that has not exited
CycleStep(t) ==
    /\ Running
    /\ \/ Load(t)
       \/ ListAndPlan(t)
       \/ AddRule(t)
       \/ UpdateRule(t)
       \/ DeleteRule(t)
       \/ Save(t)
       \/ Finish(t)

\* watch_resources returns: both watch streams have ended
WatcherEnds ==
    /\ Running
    /\ "k8s-watcher" \in proc.alive
    /\ proc' = [proc EXCEPT !.alive = @ \ {"k8s-watcher"}]
    /\ ProcUnchanged

\* run(): KeyboardInterrupt in the main loop; shutdown() sets shutdown_event
ShutdownBegins ==
    /\ proc.phase = "running"
    /\ proc' = [proc EXCEPT !.phase = "shutdown", !.shutdown_event = TRUE,
                            !.joining = 1, !.began = now,
                            !.past_check = {t \in Threads : cyc[t].pc = "apply"},
                            !.cycles_at_set = cycles]
    /\ ProcUnchanged

InJoinLoop ==
    /\ proc.phase = "shutdown"
    /\ proc.joining \in 1..Len(JoinedThreads)

\* "if thread.is_alive()" is false: the loop goes on to the next thread
JoinSkips ==
    /\ InJoinLoop
    /\ ~proc.waiting
    /\ JoinedThreads[proc.joining] \notin proc.alive
    /\ proc' = [proc EXCEPT !.joining = @ + 1]
    /\ ProcUnchanged

\* thread.join(timeout=self.thread_join_timeout) is entered
JoinBegins ==
    /\ InJoinLoop
    /\ ~proc.waiting
    /\ JoinedThreads[proc.joining] \in proc.alive
    /\ proc' = [proc EXCEPT !.waiting = TRUE,
                            !.deadline = now + config.thread_join_timeout]
    /\ ProcUnchanged

\* join returns because the thread has ended
JoinReturns ==
    /\ InJoinLoop
    /\ proc.waiting
    /\ JoinedThreads[proc.joining] \notin proc.alive
    /\ proc' = [proc EXCEPT !.waiting = FALSE, !.joining = @ + 1]
    /\ ProcUnchanged

\* mutant: join is called without a timeout
JoinTimeoutElapsed_never(p, t) == FALSE

\* the timeout of the join in progress has elapsed
JoinTimeoutElapsed(p, t) == t >= p.deadline

\* join returns because its timeout elapsed; the thread is still alive
JoinTimesOut ==
    /\ InJoinLoop
    /\ proc.waiting
    /\ JoinedThreads[proc.joining] \in proc.alive
    /\ JoinTimeoutElapsed(proc, now)
    /\ proc' = [proc EXCEPT !.waiting = FALSE, !.joining = @ + 1,
                            !.timed_out = @ \cup {JoinedThreads[proc.joining]}]
    /\ ProcUnchanged

\* a second passes inside join
JoinTick ==
    /\ InJoinLoop
    /\ proc.waiting
    /\ now < proc.deadline
    /\ now' = now + 1
    /\ UNCHANGED <<engine, outer>>

\* shutdown() returns, run() returns and the process exits
ShutdownReturns ==
    /\ proc.phase = "shutdown"
    /\ proc.joining > Len(JoinedThreads)
    /\ proc' = [proc EXCEPT !.phase = "exited"]
    /\ ProcUnchanged

\* the steps of shutdown() and of the process exit after it
ShutdownStep ==
    \/ JoinSkips
    \/ JoinBegins
    \/ JoinReturns
    \/ JoinTimesOut
    \/ JoinTick
    \/ ShutdownReturns

\* shutdown with the periodic thread running cycles
ShutdownNext ==
    \/ PeriodicObserve
    \/ PeriodicExits
    \/ CycleStep("periodic")
    \/ WatcherEnds
    \/ ShutdownBegins
    \/ ShutdownStep

\* the main thread keeps running and the clock keeps going
SpecShutdown == ShutdownInit /\ [][ShutdownNext]_vars /\ WF_vars(ShutdownStep)

\* shutdown with a delayed_sync thread running cycles, the periodic thread
\* waiting for its interval
ExitNext ==
    \/ PeriodicExits
    \/ DelayedObserve
    \/ CycleStep("debounce")
    \/ WatcherEnds
    \/ ShutdownBegins
    \/ ShutdownStep

SpecExit == ShutdownInit /\ [][ExitNext]_vars

\* C23: shutdown() always terminates: once begun it returns, after at most
\* one thread_join_timeout per thread of self.threads, and no join lasts
\* longer than thread_join_timeout.
C23_ShutdownTerminates ==
    /\ (proc.phase = "shutdown") ~> (proc.phase = "exited")
    /\ [](proc.phase = "shutdown" =>
             /\ now - proc.began <= Len(JoinedThreads) * config.thread_join_timeout
             /\ proc.waiting => now <= proc.deadline)

\* C23 witness: shutdown() has returned although the join of the health
\* server, which never ends, gave up after a wait.
C23_Witness ==
    /\ proc.phase = "exited"
    /\ "health-server" \in proc.timed_out
    /\ "health-server" \in proc.alive
    /\ now > proc.began

\* C24: when the process has exited, no cycle that had passed the safety
\* check when shutdown_event was set is still in its loops or before its save.
C24_CycleCompletesBeforeExit ==
    (proc.phase = "exited" /\ cycles = proc.cycles_at_set)
    => \A t \in proc.past_check : cyc[t].pc # "apply"

(***************************************************************************)
(* adguard_client.py: one call of the provider client, attempt by attempt. *)
(* add_rewrite_rule, update_rewrite_rule and delete_rewrite_rule send      *)
(* their request through _make_rule_request; get_rewrite_rules sends its   *)
(* own.  An attempt meets HTTP 200, another status, or an exception        *)
(* (timeout, connection reset).                                            *)
(***************************************************************************)
\* values of ADGUARD_MAX_RETRIES and ADGUARD_RETRY_DELAY the calls are made with
RetryCounts == {1, 2, 3}

RetryDelays == {1, 2}

AttemptOutcomes == {"200", "status", "exception"}

RetryInit ==
    /\ EngineAtRest
    /\ now = 0
    /\ delayed = NoDelayed
    /\ proc = InitialProc
    /\ request = NoRequest
    /\ \E m \in RetryCounts, d \in RetryDelays :
          config = [DefaultConfig EXCEPT !.max_retries = m, !.retry_delay = d]
    /\ metrics = NoMetrics
    /\ health = NoHealth

RetryUnchanged ==
    UNCHANGED <<engine, now, delayed, proc, config, metrics, health>>

\* the call has reached its request
Requesting(call, operation) ==
    [NoRequest EXCEPT !.pc = "attempting", !.call = call, !.operation = operation]

\* the call returns result
ReturnedWith(req, result) == [req EXCEPT !.pc = "returned", !.result = result]

\* add_rewrite_rule(rule)
CallAdd ==
    /\ request.pc = "idle"
    /\ request' = Requesting("add", "add")
    /\ RetryUnchanged

\* update_rewrite_rule(rule, current_rules): a domain that is not listed is added
CallUpdate ==
    /\ request.pc = "idle"
    /\ \E listed \in BOOLEAN :
          request' = IF listed THEN Requesting("update", "update")
                     ELSE Requesting("update", "add")
    /\ RetryUnchanged

\* delete_rewrite_rule(domain, current_rules): for a domain that is not listed
\* "nothing to delete", no request is sent
CallDelete ==
    /\ request.pc = "idle"
    /\ \E listed \in BOOLEAN :
          request' = IF listed THEN Requesting("delete", "delete")
                     ELSE ReturnedWith([NoRequest EXCEPT !.call = "delete"], TRUE)
    /\ RetryUnchanged

\* get_rewrite_rules()
CallList ==
    /\ request.pc = "idle"
    /\ request' = Requesting("list", "list")
    /\ RetryUnchanged

\* mutant: one attempt more than max_retries
AttemptsLeft_oneMore(req, cfg) == req.attempt < cfg.max_retries

\* "if attempt < self.max_retries - 1", attempt counting from 0
AttemptsLeft(req, cfg) == req.attempt < cfg.max_retries - 1

\* the sleep after failed attempt number attempt (from 0)
RetrySleep(attempt, cfg) == cfg.retry_delay

\* one pass of "for attempt in range(self.max_retries)" in _make_rule_request
MakeRuleRequestAttempt(req, outcome, cfg) ==
    LET r == [req EXCEPT !.attempt = @ + 1, !.outcomes = Append(@, outcome)]
    IN  IF outcome = "200" THEN ReturnedWith(r, TRUE)
        ELSE IF AttemptsLeft(req, cfg)
        THEN [r EXCEPT !.delays = Append(@, RetrySleep(req.attempt, cfg))]
        ELSE ReturnedWith(r, FALSE)

\* an attempt of an add, update or delete request
RuleRequestAttempt ==
    /\ request.pc = "attempting"
    /\ request.operation \in {"add", "update", "delete"}
    /\ \E outcome \in AttemptOutcomes :
          request' = MakeRuleRequestAttempt(request, outcome, config)
    /\ RetryUnchanged

\* get_rewrite_rules: one GET; any failure returns {}
GetRewriteRulesAttempt(req, outcome) ==
    ReturnedWith([req EXCEPT !.attempt = @ + 1, !.outcomes = Append(@, outcome)],
                 outcome = "200")

\* the request of get_rewrite_rules
ListRequestAttempt ==
    /\ request.pc = "attempting"
    /\ request.operation = "list"
    /\ \E outcome \in AttemptOutcomes :
          request' = GetRewriteRulesAttempt(request, outcome)
    /\ RetryUnchanged

RetryNext ==
    \/ CallAdd
    \/ CallUpdate
    \/ CallDelete
    \/ CallList
    \/ RuleRequestAttempt
    \/ ListRequestAttempt

SpecRetry == RetryInit /\ [][RetryNext]_vars

\* a create, update or delete call that has returned
RuleCallReturned ==
    request.pc = "returned" /\ request.call \in {"add", "update", "delete"}

\* some attempt of the call met HTTP 200
SomeAttemptSucceeded ==
    \E i \in 1..Len(request.outcomes) : request.outcomes[i] = "200"

\* no attempt was made after one that met HTTP 200, nor past max_retries
AttemptsWithinBounds ==
    /\ request.attempt = Len(request.outcomes)
    /\ request.attempt <= config.max_retries
    /\ \A i \in 1..Len(request.outcomes) :
          request.outcomes[i] = "200" => i = Len(request.outcomes)

\* C25, as stated: every create, update and delete call makes at least one
\* and at most max_retries attempts, stops at the first success and returns
\* true exactly when some attempt succeeded.
C25_Original ==
    RuleCallReturned =>
        /\ request.attempt >= 1
        /\ AttemptsWithinBounds
        /\ request.result <=> SomeAttemptSucceeded

\* C25: a create, update or delete call never makes more than max_retries
\* attempts and none after a success; a call that sends a request makes at
\* least one attempt and returns true exactly when some attempt succeeded; a
\* delete call that sends none returns true; a call in progress has made
\* fewer than max_retries attempts, all failed.
C25_BoundedAttempts ==
    /\ RuleCallReturned =>
          /\ AttemptsWithinBounds
          /\ request.operation # "none" =>
                /\ request.attempt >= 1
                /\ request.result <=> SomeAttemptSucceeded
          /\ request.operation = "none" =>
                request.call = "delete" /\ request.attempt = 0 /\ request.result
    /\ (request.pc = "attempting" /\ request.operation # "list") =>
          /\ request.attempt < config.max_retries
          /\ ~SomeAttemptSucceeded

\* C25 witness: a call that failed twice and succeeded at its third attempt.
C25_Witness ==
    /\ RuleCallReturned
    /\ request.outcomes = <<"exception", "status", "200">>
    /\ request.result

\* C26: the sleep before attempt k+1 is longer than the one before attempt k.
C26_IncreasingDelay ==
    request.operation \in {"add", "update", "delete"} =>
        \A k \in 1..(Len(request.delays) - 1) :
            request.delays[k + 1] > request.delays[k]

\* the provider's records when the list is asked for
ListedRemote == [EmptyMap EXCEPT !["x"] = RewriteRule("a1", TRUE)]

\* C27: a list call returns a failure only after max_retries attempts, so one
\* failed attempt with attempts left does not abort the cycle.
C27_ListRetries ==
    (request.pc = "returned" /\ request.call = "list"
        /\ request.attempt < config.max_retries)
    => ~ListAborts(get_rewrite_rules(ListedRemote, request.result))

(***************************************************************************)
(* Startup: main() constructs AdGuardDNSSync, whose __init__ reads the     *)
(* configuration and validates it component by component; any exception   *)
(* ends the process with exit(1).  Then run() makes the initial sync.  Of  *)
(* that cycle only the start is kept here.                                 *)
(***************************************************************************)
\* the accepted range of each setting: <<lowest, highest>>, floats in tenths
ConfigRange ==
    [sync_interval    |-> <<5, 3600>>,
     change_wait_time |-> <<1, 60>>,
     max_retries      |-> <<1, 10>>,
     retry_delay      |-> <<1, 60>>,
     request_timeout  |-> <<1, 300>>,
     safety_threshold |-> <<1, 10>>,
     max_backups      |-> <<1, 50>>,
     lock_timeout     |-> <<10, 3000>>]

\* the integer settings and the float settings the runs vary
IntSettings ==
    {"sync_interval", "change_wait_time", "max_retries", "retry_delay",
     "request_timeout", "max_backups"}

FloatSettings == {"safety_threshold", "lock_timeout"}

\* values of a setting: just below its range, its default, just above, and
\* for a float also nan
SettingValues(k) ==
    IF k \in FloatSettings
    THEN {Float(ConfigRange[k][1] - 1), DefaultConfig[k],
          Float(ConfigRange[k][2] + 1), NaN}
    ELSE {ConfigRange[k][1] - 1, DefaultConfig[k], ConfigRange[k][2] + 1}

\* the configurations the process is started with
StartupConfigs ==
    {[DefaultConfig EXCEPT
         !.sync_interval = si, !.change_wait_time = cw, !.max_retries = mr,
         !.retry_delay = rd, !.request_timeout = rt, !.max_backups = mb,
         !.safety_threshold = st, !.lock_timeout = lt] :
        si \in SettingValues("sync_interval"),
        cw \in SettingValues("change_wait_time"),
        mr \in SettingValues("max_retries"),
        rd \in SettingValues("retry_delay"),
        rt \in SettingValues("request_timeout"),
        mb \in SettingValues("max_backups"),
        st \in SettingValues("safety_threshold"),
        lt \in SettingValues("lock_timeout")}

\* "if self.k < lo or self.k > hi: raise ValueError"
RaisesInt(cfg, k) == cfg[k] < ConfigRange[k][1] \/ cfg[k] > ConfigRange[k][2]

\* the same test on a float setting
RaisesFloat(cfg, k) ==
    \/ FloatLess(cfg[k], Float(ConfigRange[k][1]))
    \/ FloatLess(Float(ConfigRange[k][2]), cfg[k])

\* AdGuardDNSSync._validate_configuration raises
AppRaises(cfg) == RaisesInt(cfg, "sync_interval") \/ RaisesInt(cfg, "change_wait_time")

\* AdGuardHomeClientV2._validate_configuration raises
ClientRaises(cfg) ==
    \/ RaisesInt(cfg, "max_retries")
    \/ RaisesInt(cfg, "retry_delay")
    \/ RaisesInt(cfg, "request_timeout")
    \/ RaisesFloat(cfg, "safety_threshold")

\* RuleDatabase._validate_configuration raises
DatabaseRaises(cfg) == RaisesInt(cfg, "max_backups") \/ RaisesFloat(cfg, "lock_timeout")

StartupInit ==
    /\ EngineAtRest
    /\ now = 0
    /\ delayed = NoDelayed
    /\ proc = [InitialProc EXCEPT !.phase = "starting", !.alive = {}]
    /\ request = NoRequest
    /\ config \in StartupConfigs
    /\ metrics = NoMetrics
    /\ health = NoHealth

StartupUnchanged ==
    UNCHANGED <<remote, files, safety_threshold, cyc, created, prev,
                max_backups, store, lock, now, delayed, request, config,
                metrics, health>>

\* the process after a step of __init__: an exception reaches main(), which
\* logs it and calls exit(1); otherwise __init__ goes on
AfterInitStep(p, raises, to) == [p EXCEPT !.phase = IF raises THEN "exited" ELSE to]

\* AdGuardDNSSync.__init__ up to its own validation
AppValidates ==
    /\ proc.phase = "starting"
    /\ proc' = AfterInitStep(proc, AppRaises(config), "app_ok")
    /\ UNCHANGED cycles
    /\ StartupUnchanged

\* _setup_adguard: the client validates its settings and logs in
ClientSetup ==
    /\ proc.phase = "app_ok"
    /\ \E login_ok \in BOOLEAN :
          proc' = AfterInitStep(proc, ClientRaises(config) \/ ~login_ok, "client_ok")
    /\ UNCHANGED cycles
    /\ StartupUnchanged

\* _setup_database: RuleDatabase validates its settings
DatabaseSetup ==
    /\ proc.phase = "client_ok"
    /\ proc' = AfterInitStep(proc, DatabaseRaises(config), "ready")
    /\ UNCHANGED cycles
    /\ StartupUnchanged

\* run(): the initial sync starts; the threads are started after it
InitialSync ==
    /\ proc.phase = "ready"
    /\ proc' = [proc EXCEPT !.phase = "running", !.alive = InitialProc.alive]
    /\ cycles' = cycles + 1
    /\ StartupUnchanged

StartupNext ==
    \/ AppValidates
    \/ ClientSetup
    \/ DatabaseSetup
    \/ InitialSync

SpecStartup == StartupInit /\ [][StartupNext]_vars

\* the value of setting k lies in its accepted range
InRange(cfg, k) ==
    IF k \in FloatSettings
    THEN /\ ~cfg[k].nan
         /\ ConfigRange[k][1] <= cfg[k].tenths
         /\ cfg[k].tenths <= ConfigRange[k][2]
    ELSE ConfigRange[k][1] <= cfg[k] /\ cfg[k] <= ConfigRange[k][2]

OutOfRange(cfg) == \E k \in IntSettings \cup FloatSettings : ~InRange(cfg, k)

\* C28: with a setting outside its accepted range the process never gets
\* through initialization: no cycle is started, nothing is sent to the
\* provider and no store file is written.
C28_InvalidConfigStopsStartup ==
    OutOfRange(config) =>
        /\ proc.phase \notin {"ready", "running"}
        /\ cycles = 0
        /\ remote = EmptyMap
        /\ files = NoFiles

(***************************************************************************)
(* logger.py: the metrics counters.  Each cycle calls sync_start, which    *)
(* adds 1 to sync_operations, and, when it changed something, sync_success,*)
(* which adds its counts to rules_created, rules_updated and rules_deleted.*)
(* Each "self._metrics[k] += n" reads the counter and then writes it; the  *)
(* threads running cycles share the one Logger and take no lock.           *)
(***************************************************************************)
\* the counts (created, updated, deleted) a cycle reports
CycleCounts == {<<1, 0, 0>>, <<0, 1, 1>>, <<2, 0, 1>>}

MetricsInit ==
    /\ EngineAtRest
    /\ now = 0
    /\ delayed = NoDelayed
    /\ proc = InitialProc
    /\ request = NoRequest
    /\ config = DefaultConfig
    /\ metrics = NoMetrics
    /\ health = NoHealth

MetricsUnchanged ==
    UNCHANGED <<engine, now, delayed, proc, request, config, health>>

\* sync_rules of thread t begins to log: sync_start, later sync_success
LoggingBegins(t) ==
    /\ metrics.thread[t].stmt = 0
    /\ metrics.cycles < MaxMetricCycles
    /\ \E n \in CycleCounts :
          metrics' = [metrics EXCEPT
              !.thread[t] = [NotLogging EXCEPT !.stmt = 1,
                                !.amounts = <<1, n[1], n[2], n[3]>>],
              !.cycles = @ + 1]
    /\ MetricsUnchanged

\* "self._metrics[k] += n": the counter is read
CounterLoad(t) ==
    /\ metrics.thread[t].stmt \in 1..Len(Counters)
    /\ ~metrics.thread[t].loaded
    /\ metrics' = [metrics EXCEPT
          !.thread[t].loaded = TRUE,
          !.thread[t].value = metrics.counters[metrics.thread[t].stmt]]
    /\ MetricsUnchanged

\* the value "+=" writes back: what was read plus the amount
StoredValue(m, t) == m.thread[t].value + m.thread[t].amounts[m.thread[t].stmt]

\* "self._metrics[k] += n": the sum is written back
CounterStore(t) ==
    LET th == metrics.thread[t]
    IN  /\ th.stmt \in 1..Len(Counters)
        /\ th.loaded
        /\ metrics' = [metrics EXCEPT
              !.counters[th.stmt] = StoredValue(metrics, t),
              !.sum[th.stmt] = @ + th.amounts[th.stmt],
              !.thread[t] = IF th.stmt = Len(Counters) THEN NotLogging
                            ELSE [th EXCEPT !.stmt = @ + 1, !.loaded = FALSE]]
        /\ MetricsUnchanged

MetricsNext ==
    \E t \in Threads :
        \/ LoggingBegins(t)
        \/ CounterLoad(t)
        \/ CounterStore(t)

SpecMetrics == MetricsInit /\ [][MetricsNext]_vars

\* C29: when no thread is inside an update, each cumulative counter is the
\* sum of the amounts the cycles added to it.
C29_NoLostUpdate ==
    (\A t \in Threads : ~metrics.thread[t].loaded)
    => \A i \in 1..Len(Counters) : metrics.counters[i] = metrics.sum[i]

(***************************************************************************)
(* health.py: the health surface.  GET /health calls get_health_status,    *)
(* which probes each component unless its cache entry is younger than      *)
(* cache_duration, stores the result in the cache and serves the cache's   *)
(* fields.                                                                 *)
(***************************************************************************)
\* HEALTH_CACHE_DURATION, HEALTH_MAX_CONSECUTIVE_FAILURES: the lowest valid
\* duration and the default
cache_duration == 5

max_consecutive_failures == 3

\* what a probe meets: the component answers, or an error (message)
ProbeOutcomes == {"ok", "connection refused"}

HealthInit ==
    /\ EngineAtRest
    /\ now = 0
    /\ delayed = NoDelayed
    /\ proc = InitialProc
    /\ request = NoRequest
    /\ config = DefaultConfig
    /\ metrics = NoMetrics
    /\ health = NoHealth

HealthUnchanged ==
    UNCHANGED <<engine, delayed, proc, request, config, metrics>>

\* _is_cache_valid(component)
IsCacheValid(h, c, t) ==
    h.cache[c].last_check # -1 /\ t - h.cache[c].last_check < cache_duration

\* the error _update_health_cache stores: check_*_connectivity calls it
\* without the error argument, which defaults to None
CacheError(outcome) == "none"

\* check_adguard_connectivity / check_k8s_connectivity for component c, the
\* probe meeting outcome if one is made
CheckConnectivity(h, c, outcome, t) ==
    IF IsCacheValid(h, c, t) THEN h
    ELSE [h EXCEPT
            !.cache[c] = [healthy |-> outcome = "ok", last_check |-> t,
                          error |-> CacheError(outcome)],
            !.failures[c] = IF outcome = "ok" THEN 0 ELSE @ + 1,
            !.probe[c] = IF outcome = "ok" THEN "ok" ELSE "failed"]

\* is_healthy(), the caches just refreshed
IsHealthy(h) ==
    /\ \A c \in Components : h.failures[c] < max_consecutive_failures
    /\ \A c \in Components : h.cache[c].healthy

\* GET /health: get_health_status
GetHealthStatus ==
    /\ health.requests < MaxHealthRequests
    /\ \E oa \in ProbeOutcomes, ok \in ProbeOutcomes :
          LET h1 == CheckConnectivity(health, "adguard", oa, now)
              h2 == CheckConnectivity(h1, "k8s", ok, now)
          IN  health' = [h2 EXCEPT
                  !.status = [served  |-> TRUE,
                              status  |-> IF IsHealthy(h2) THEN "healthy" ELSE "unhealthy",
                              healthy |-> [c \in Components |-> h2.cache[c].healthy],
                              error   |-> [c \in Components |-> h2.cache[c].error]],
                  !.requests = @ + 1]
    /\ UNCHANGED now
    /\ HealthUnchanged

\* a second passes
HealthTick ==
    /\ now < MaxHealthClock
    /\ now' = now + 1
    /\ UNCHANGED health
    /\ HealthUnchanged

HealthNext == GetHealthStatus \/ HealthTick

SpecHealth == HealthInit /\ [][HealthNext]_vars

\* C30: while the last probe of a component is a failed one, the status
\* served reports a non-empty error for that component.
C30_HealthReflectsLastError ==
    \A c \in Components :
        (health.status.served /\ health.probe[c] = "failed")
        => health.status.error[c] # "none"

(***************************************************************************)
(* Items of a cycle apply independently                                    *)
(***************************************************************************)
\* the cycle went through its three loops: it was aborted neither by the list
\* check nor by the safety guard, and load returned
RanItsLoops(c) ==
    /\ c.pc = "done"
    /\ c.outcome \in {"ok", "save_failed", "lock_timeout"}
    /\ ~ListAborts(c.current_rules)

\* C31: a cycle that went through its loops has sent the request of every
\* domain of every phase, whatever requests of it failed: a failed request
\* blocks neither the other domains of its phase nor the later phases.
C31_ItemsIndependent ==
    \A t \in Threads :
        LET c == cyc[t]
        IN  RanItsLoops(c)
            => \A i \in 1..Len(PhaseOrder) :
                   c.sent[PhaseOrder[i]] = PhaseItems(c, PhaseOrder[i])

\* C31 witness: the create of x failed; the create of y, in the same loop,
\* and a delete, in a later loop, were sent all the same.
C31_Witness ==
    \E t \in Threads :
        LET c == cyc[t]
        IN  /\ RanItsLoops(c)
            /\ "x" \in c.sent.add \ c.acked.add
            /\ "y" \in c.acked.add
            /\ c.acked.delete # {}

(***************************************************************************)
(* database.py: the store's files record by record.  The content of a file *)
(* (raw) is what json.dump wrote or what somebody else left there: no      *)
(* file, a file that cannot be opened, text that is not JSON, JSON that is *)
(* not an object, or an object with one entry per domain.  An entry is     *)
(* missing, a value that is not an object, or an object with some of the   *)
(* fields domain, answer, enabled.  On disk a file is kept with what       *)
(* _load_from_file makes of it (st, rules), so that load_managed_rules and *)
(* save_managed_rules are the operators above.                             *)
(***************************************************************************)
MaxRecordCalls == 2

RequiredFields == {"domain", "answer", "enabled"}

NoEntry == [kind |-> "none", fields |-> {}, answer |-> "none", enabled |-> FALSE]

ScalarEntry == [kind |-> "scalar", fields |-> {}, answer |-> "none", enabled |-> FALSE]

MappingEntry(fields, answer, enabled) ==
    [kind |-> "mapping", fields |-> fields,
     answer |-> IF "answer" \in fields THEN answer ELSE "none",
     enabled |-> IF "enabled" \in fields THEN enabled ELSE FALSE]

NoEntries == [d \in Domains |-> NoEntry]

RawAbsent == [st |-> "absent", entries |-> NoEntries]

RawUnreadable == [st |-> "unreadable", entries |-> NoEntries]

RawGarbage == [st |-> "garbage", entries |-> NoEntries]

RawNotDict == [st |-> "not_dict", entries |-> NoEntries]

RawDict(entries) == [st |-> "dict", entries |-> entries]

\* "if not isinstance(rule_data, dict): continue" and "if not all(key in
\* rule_data for key in ['domain', 'answer', 'enabled']): continue"
EntrySkipped(e) == e.kind # "mapping" \/ ~(RequiredFields \subseteq e.fields)

\* mutant: a record that cannot be used makes the whole file invalid
LoadFromFile_allOrNothing(raw) ==
    LET bad == \E d \in Domains :
                   raw.entries[d].kind # "none" /\ EntrySkipped(raw.entries[d])
    IN  [raises |-> CASE raw.st = "absent"     -> "FileNotFoundError"
                      [] raw.st = "unreadable" -> "PermissionError"
                      [] raw.st = "garbage"    -> "JSONDecodeError"
                      [] raw.st = "not_dict"   -> "ValueError"
                      [] raw.st = "dict"       -> IF bad THEN "ValueError" ELSE "none",
         rules  |-> [d \in Domains |->
                        IF raw.st = "dict" /\ ~bad /\ ~EntrySkipped(raw.entries[d])
                        THEN RewriteRule(raw.entries[d].answer, raw.entries[d].enabled)
                        ELSE NoRule]]

\* _load_from_file: the exception it ends by ("none": it returns) and the
\* rules it returns
LoadFromFile(raw) ==
    [raises |-> CASE raw.st = "absent"     -> "FileNotFoundError"
                  [] raw.st = "unreadable" -> "PermissionError"
                  [] raw.st = "garbage"    -> "JSONDecodeError"
                  [] raw.st = "not_dict"   -> "ValueError"
                  [] raw.st = "dict"       -> "none",
     rules  |-> [d \in Domains |->
                    IF raw.st = "dict" /\ ~EntrySkipped(raw.entries[d])
                    THEN RewriteRule(raw.entries[d].answer, raw.entries[d].enabled)
                    ELSE NoRule]]

\* _save_to_file: data[domain] = {'domain', 'answer', 'enabled'}; json.dump
JsonDump(rules) ==
    RawDict([d \in Domains |->
                IF rules[d] = NoRule THEN NoEntry
                ELSE MappingEntry(RequiredFields, rules[d].answer, rules[d].enabled)])

\* load_managed_rules catches json.JSONDecodeError, KeyError and ValueError
CaughtByLoad == {"JSONDecodeError", "KeyError", "ValueError"}

\* a file with the content raw, as load_managed_rules meets it
OnDisk(raw) ==
    LET r == LoadFromFile(raw)
    IN  [st    |-> IF raw.st = "absent" THEN "absent"
                   ELSE IF r.raises = "none" THEN "ok"
                   ELSE IF r.raises \in CaughtByLoad THEN "corrupt"
                   ELSE "unreadable",
         rules |-> r.rules,
         raw   |-> raw]

\* reading the file ends by an exception that load_managed_rules does not catch
Unreadable(f) == f.st = "unreadable"

\* _try_backup_restore ends by such an exception: of the files it reads in
\* turn, the first that is not skipped as corrupted cannot be read
RestoreRaises(f) ==
    LET nf   == BackupGlob(f)
        stop == {i \in 1..Len(nf) : Parses(nf[i].file) \/ Unreadable(nf[i].file)}
    IN  IF stop # {}
        THEN Unreadable(nf[CHOOSE i \in stop : \A j \in stop : i <= j].file)
        ELSE Exists(f.backup) /\ Unreadable(f.backup)

\* load_managed_rules ends by such an exception
LoadRaises(f) ==
    IF Exists(f.db)
    THEN \/ Unreadable(f.db)
         \/ ~Parses(f.db) /\ RestoreRaises(CleanupCorruptedDb(f))
    ELSE Exists(f.backup) /\ Unreadable(f.backup)

\* the files when it does: the primary has been renamed away unless it was
\* the file that could not be read
FilesAtRaise(f) ==
    IF Exists(f.db) /\ ~Unreadable(f.db) THEN CleanupCorruptedDb(f) ELSE f

\* save_managed_rules, the primary written by _save_to_file
SaveRecords(f, rules) ==
    [SaveManagedRules(f, rules) EXCEPT !.db = OnDisk(JsonDump(rules))]

\* the entries a file may hold for one domain
EntryKinds ==
    {NoEntry, ScalarEntry,
     MappingEntry(RequiredFields, "a1", TRUE),
     MappingEntry({"answer", "enabled"}, "a1", TRUE),
     MappingEntry({"domain", "enabled"}, "a1", TRUE),
     MappingEntry({"domain", "answer"}, "a1", TRUE)}

\* the contents the primary may have at the start: entries for x and y
PrimaryContents ==
    {RawAbsent, RawUnreadable, RawGarbage, RawNotDict}
    \cup {RawDict([NoEntries EXCEPT !["x"] = ex, !["y"] = ey]) :
              ex \in EntryKinds, ey \in EntryKinds}

\* the contents a backup may have at the start
BackupContents ==
    {RawAbsent, RawUnreadable, RawGarbage,
     RawDict(NoEntries),
     RawDict([NoEntries EXCEPT !["x"] = ScalarEntry]),
     RawDict([NoEntries EXCEPT !["x"] = MappingEntry(RequiredFields, "a1", TRUE)]),
     RawDict([NoEntries EXCEPT !["x"] = MappingEntry(RequiredFields, "a1", TRUE),
                               !["y"] = MappingEntry({"domain"}, "a1", TRUE)])}

RecordsInit ==
    /\ remote = EmptyMap
    /\ \E p \in PrimaryContents, b \in BackupContents, g \in BackupContents :
          files = [NoFiles EXCEPT
                      !.db = OnDisk(p),
                      !.backup = OnDisk(b),
                      !.gens = IF g = RawAbsent THEN <<>>
                               ELSE <<Named(0, OnDisk(g))>>]
    /\ safety_threshold = DefaultSafetyThreshold
    /\ cyc = [t \in Threads |-> IdleCycle]
    /\ cycles = 0
    /\ created = {}
    /\ prev = NoPrev
    /\ now = 1
    /\ max_backups = DefaultMaxBackups
    /\ store = IdleStore
    /\ lock = "free"
    /\ OuterIdle

\* save_managed_rules(rules) is called and returns
RecordsSave ==
    /\ store.calls < MaxRecordCalls
    /\ \E rules \in StoreSets :
          /\ files' = SaveRecords(files, rules)
          /\ store' = [Returned(store) EXCEPT
                          !.call = "save", !.rules = rules, !.result = EmptyMap,
                          !.files0 = files, !.calls = @ + 1]
    /\ UNCHANGED now
    /\ StoreUnchanged

\* load_managed_rules() is called and returns the rules it found
RecordsLoadReturns ==
    /\ store.calls < MaxRecordCalls
    /\ ~LoadRaises(files)
    /\ files' = LoadManagedRules(files)[2]
    /\ store' = [Returned(store) EXCEPT
                    !.call = "load", !.result = LoadManagedRules(files)[1],
                    !.files0 = files, !.calls = @ + 1]
    /\ UNCHANGED now
    /\ StoreUnchanged

\* load_managed_rules() is called and ends by an exception
RecordsLoadRaises ==
    /\ store.calls < MaxRecordCalls
    /\ LoadRaises(files)
    /\ files' = FilesAtRaise(files)
    /\ store' = [Raised(store) EXCEPT
                    !.call = "load", !.result = EmptyMap,
                    !.files0 = files, !.calls = @ + 1]
    /\ UNCHANGED now
    /\ StoreUnchanged

RecordsNext ==
    \/ RecordsSave
    \/ RecordsLoadReturns
    \/ RecordsLoadRaises

SpecRecords == RecordsInit /\ [][RecordsNext]_vars

\* the content of a file
RawOf(f) == IF Exists(f) THEN f.raw ELSE RawAbsent

\* the last call was a load
Loaded == store.call = "load" /\ store.status \in {"returned", "raised"}

\* the entries of a file that hold a rule: objects with the three fields
WellFormed(raw) == {d \in Domains : raw.entries[d].kind = "mapping"
                                      /\ RequiredFields \subseteq raw.entries[d].fields}

\* C32: a load that reads a file holding a JSON object returns the rule of
\* every well-formed entry of it and of no other entry, and does not fail,
\* whatever the other entries are.
C32_BadRecordSkipped ==
    (Loaded /\ RawOf(store.files0.db).st = "dict")
    => /\ store.status = "returned"
       /\ keys(store.result) = WellFormed(RawOf(store.files0.db))
       /\ \A d \in keys(store.result) :
              /\ store.result[d].answer = RawOf(store.files0.db).entries[d].answer
              /\ store.result[d].enabled = RawOf(store.files0.db).entries[d].enabled

\* C32 witness: the entry of x lacks a field, the entry of y is well-formed,
\* and load returned exactly y.
C32_Witness ==
    /\ Loaded /\ store.status = "returned"
    /\ RawOf(store.files0.db).st = "dict"
    /\ RawOf(store.files0.db).entries["x"].kind = "mapping"
    /\ "answer" \notin RawOf(store.files0.db).entries["x"].fields
    /\ keys(store.result) = {"y"}

\* the primary was renamed away by the load
Quarantined ==
    /\ Exists(store.files0.db)
    /\ Len(files.corrupted) > Len(store.files0.corrupted)

\* the timestamped backups that hold at least one rule
ValidGenerations(f) ==
    {i \in 1..Len(f.gens) : Parses(f.gens[i].file) /\ keys(f.gens[i].file.rules) # {}}

\* C33: a load that renamed the primary away and returned the empty set found
\* no timestamped backup that holds a valid set.
C33_QuarantineFallsBack ==
    (Loaded /\ store.status = "returned" /\ Quarantined /\ store.result = EmptyMap)
    => ValidGenerations(store.files0) = {}

\* the case of C33 in which the primary could not be parsed at all
C33_UnparseableFallsBack ==
    (Loaded /\ store.status = "returned" /\ Quarantined /\ store.result = EmptyMap
        /\ ~Parses(store.files0.db))
    => ValidGenerations(store.files0) = {}

\* C34: whatever the primary and the backups are (missing, unreadable,
\* unparseable, valid), a load returns a rule set to its caller and raises
\* nothing; with no valid file anywhere the set is empty.
C34_LoadNeverRaises ==
    Loaded
    => /\ store.status = "returned"
       /\ (/\ ~Parses(store.files0.db)
           /\ ~Parses(store.files0.backup)
           /\ \A i \in 1..Len(store.files0.gens) : ~Parses(store.files0.gens[i].file))
          => store.result = EmptyMap

\* the case of C34 without a file that cannot be opened: load returns
C34_ReadableFilesNeverRaise ==
    (/\ Loaded
     /\ ~Unreadable(store.files0.db)
     /\ ~Unreadable(store.files0.backup)
     /\ \A i \in 1..Len(store.files0.gens) : ~Unreadable(store.files0.gens[i].file))
    => /\ store.status = "returned"
       /\ (/\ ~Parses(store.files0.db)
           /\ ~Parses(store.files0.backup)
           /\ \A i \in 1..Len(store.files0.gens) : ~Parses(store.files0.gens[i].file))
          => store.result = EmptyMap

\* the step is a call of load_managed_rules
LoadCalled == store'.calls = store.calls + 1 /\ store'.call = "load"

\* C40: a load that finds a primary that parses changes no file; and for
\* every rule set M, the empty one too, the load that follows save(M) returns
\* M and leaves the primary in place with the content save wrote.
C40_LoadLeavesFiles ==
    [][LoadCalled =>
          /\ Parses(files.db) => files' = files
          /\ (store.call = "save" /\ store.status = "returned")
                => /\ store'.status = "returned"
                   /\ store'.result = store.rules
                   /\ files'.db = OnDisk(JsonDump(store.rules))]_vars

\* the case of C40 with a rule set that is not empty
C40_NonEmptyRoundTrip ==
    [][(LoadCalled /\ store.call = "save" /\ store.status = "returned"
          /\ keys(store.rules) # {})
          => /\ store'.status = "returned"
             /\ store'.result = store.rules
             /\ files' = files
             /\ files'.db = OnDisk(JsonDump(store.rules))]_vars

(***************************************************************************)
(* The counters of a cycle                                                 *)
(***************************************************************************)
\* rules_created, rules_updated and rules_deleted at "Sync completed": each
\* loop adds one for every call that returned True, and delete_rewrite_rule
\* returns True without a request for a domain that is not in current_rules
SyncCounters(c) ==
    [created |-> Cardinality(c.acked.add),
     updated |-> Cardinality(c.acked.update),
     deleted |-> Cardinality(c.acked.delete)
                 + Cardinality({d \in to_delete(c) :
                                   ~DeleteSendsRequest(d, c.current_rules)})]

\* C35: at the end of a cycle that was not aborted the counters are the
\* numbers of create, update and delete requests the provider acknowledged;
\* a managed domain the provider did not hold is not counted as deleted.
C35_CountersMatchAcknowledged ==
    \A t \in Threads :
        LET c == cyc[t]
        IN  (c.pc = "done" /\ c.outcome = "ok")
            => /\ SyncCounters(c).created = Cardinality(c.acked.add)
               /\ SyncCounters(c).updated = Cardinality(c.acked.update)
               /\ SyncCounters(c).deleted = Cardinality(c.acked.delete)

\* C36: when a cycle has ended with every request it sent acknowledged, the
\* provider's record of every domain of DesiredSet equals the desired rule,
\* answer and enabled flag.
C36_ProviderMatchesDesired ==
    \A t \in SeqThreads :
        LET c == cyc[t]
        IN  (c.pc = "done" /\ c.outcome = "ok" /\ Healthy(c))
            => \A d \in keys(c.target_rules) : remote[d] = c.target_rules[d]

\* the part of C36 about the answers: they equal the desired ones
C36_AnswersMatchDesired ==
    \A t \in SeqThreads :
        LET c == cyc[t]
        IN  (c.pc = "done" /\ c.outcome = "ok" /\ Healthy(c))
            => \A d \in keys(c.target_rules) :
                   remote[d].answer = c.target_rules[d].answer

(***************************************************************************)
(* Shutdown with both triggers at work: the periodic loop, and the watcher *)
(* whose notifications start delayed_sync threads that sleep               *)
(* change_wait_time and then call sync_rules.  One delayed_sync thread at  *)
(* a time is followed through its cycle.                                   *)
(***************************************************************************)
QuiesceInit ==
    /\ remote = [EmptyMap EXCEPT !["y"] = RewriteRule("a2", TRUE)]
    /\ files = NoFiles
    /\ safety_threshold = MaxSafetyThreshold
    /\ cyc = [t \in Threads |-> IdleCycle]
    /\ cycles = 0
    /\ created = {}
    /\ prev = NoPrev
    /\ now = 0
    /\ max_backups = DefaultMaxBackups
    /\ store = IdleStore
    /\ lock = "free"
    /\ delayed = NoDelayed
    /\ proc = InitialProc
    /\ request = NoRequest
    /\ \E w \in ChangeWaitTimes, j \in JoinTimeouts :
          config = [DefaultConfig EXCEPT !.change_wait_time = w,
                                         !.thread_join_timeout = j]
    /\ metrics = NoMetrics
    /\ health = NoHealth

\* the watcher thread, alive until the process exits, reports an event
WatcherNotifies ==
    /\ Running
    /\ "k8s-watcher" \in proc.alive
    /\ delayed.notifications < MaxQuiesceNotifications
    /\ HandleResourceChange

\* delayed_sync: time.sleep(change_wait_time) returns and sync_rules is
\* called, whatever shutdown_event is
DelayedSyncObserves ==
    /\ Running
    /\ delayed.sleeping # <<>>
    /\ Head(delayed.sleeping) <= now
    /\ cyc["debounce"].pc = "idle"
    /\ cycles < MaxQuiesceCycles
    /\ \E dns \in FaultDnsResources :
          cyc' = [cyc EXCEPT !["debounce"] = [IdleCycle EXCEPT
                     !.pc = "observed",
                     !.target_rules = generate_rules(dns),
                     !.remote0 = remote]]
    /\ cycles' = cycles + 1
    /\ delayed' = [delayed EXCEPT !.sleeping = Tail(@), !.started = @ + 1]
    /\ UNCHANGED <<remote, files, safety_threshold, created, prev, now,
                   max_backups, store, lock, proc, request, config, metrics, health>>

\* periodic_sync: the wait for the interval ends and sync_rules is called
QuiescePeriodicObserve ==
    /\ Running
    /\ "periodic-sync" \in proc.alive
    /\ ~proc.shutdown_event
    /\ TriggeredObserve("periodic", MaxQuiesceCycles)

\* a second passes in the main loop
MainLoopTick ==
    /\ proc.phase = "running"
    /\ now < MaxQuiesceClock
    /\ now' = now + 1
    /\ UNCHANGED <<engine, outer>>

QuiesceNext ==
    \/ WatcherNotifies
    \/ DelayedSyncObserves
    \/ QuiescePeriodicObserve
    \/ PeriodicExits
    \/ CycleStep("periodic")
    \/ CycleStep("debounce")
    \/ WatcherEnds
    \/ MainLoopTick
    \/ ShutdownBegins
    \/ ShutdownStep

SpecQuiesce == QuiesceInit /\ [][QuiesceNext]_vars

\* C37: once shutdown_event is set no cycle is started, neither by the
\* periodic loop nor by a delayed_sync thread whose wait was pending.
C37_NoCycleAfterShutdown ==
    [][proc.shutdown_event => cycles' = cycles]_vars

\* the part of C37 about the interval timer: the periodic thread starts no
\* cycle once shutdown_event is set
C37_NoPeriodicCycleAfterShutdown ==
    [][(proc.shutdown_event /\ cyc["periodic"].pc = "idle")
          => cyc'["periodic"].pc = "idle"]_vars

\* a delayed_sync thread that was asleep when shutdown_event was set has
\* started a cycle since
PendingWaitRanCycle ==
    /\ proc.shutdown_event
    /\ delayed.notifications = 1 /\ delayed.started = 1
    /\ delayed.last <= proc.began
    /\ proc.cycles_at_set < cycles
    /\ cyc["periodic"].pc = "idle"

(***************************************************************************)
(* Overlapping cycles with a healthy store and the default safety          *)
(* threshold: the periodic thread and a delayed_sync thread call           *)
(* sync_rules side by side.  seq records the order in which the cycles     *)
(* called generate_rules.                                                  *)
(***************************************************************************)
\* the observer reports nothing, x, or x and y
OverlapDnsResources ==
    {[d \in Domains |-> "none"],
     [d \in Domains |-> IF d = "x" THEN "a1" ELSE "none"],
     [d \in Domains |-> IF d \in {"x", "y"} THEN "a1" ELSE "none"]}

OverlapInit ==
    /\ remote \in {[EmptyMap EXCEPT !["y"] = RewriteRule("a2", TRUE)],
                   [EmptyMap EXCEPT !["x"] = RewriteRule("a2", TRUE)]}
    /\ files = NoFiles
    /\ safety_threshold = DefaultSafetyThreshold
    /\ cyc = [t \in Threads |-> IdleCycle]
    /\ cycles = 0
    /\ created = {}
    /\ prev = NoPrev
    /\ now = 0
    /\ max_backups = DefaultMaxBackups
    /\ store = IdleStore
    /\ lock = "free"
    /\ OuterIdle

\* sync_rules is called by thread t, whatever the other thread is doing
OverlapObserve(t) ==
    /\ cyc[t].pc = "idle"
    /\ cycles < MaxOverlapCycles
    /\ \E dns \in OverlapDnsResources :
          cyc' = [cyc EXCEPT ![t] = [IdleCycle EXCEPT
                     !.pc = "observed",
                     !.target_rules = generate_rules(dns),
                     !.remote0 = remote,
                     !.seq = cycles + 1]]
    /\ cycles' = cycles + 1
    /\ UNCHANGED <<remote, files, safety_threshold, created, prev, now, max_backups, store, lock, outer>>

OverlapNext ==
    \E t \in Threads :
        \/ OverlapObserve(t)
        \/ Load(t)
        \/ ListAndPlan(t)
        \/ AddRule(t)
        \/ UpdateRule(t)
        \/ DeleteRule(t)
        \/ Save(t)
        \/ Finish(t)

SpecOverlap == OverlapInit /\ [][OverlapNext]_vars

\* C38: when two cycles that ran side by side have both saved, the primary
\* holds the DesiredSet of the one that observed last.
C38_NewerSaveWins ==
    \A t \in Threads, u \in Threads :
        (/\ cyc[t].pc = "done" /\ cyc[t].saved
         /\ cyc[u].pc = "done" /\ cyc[u].saved
         /\ cyc[t].seq > cyc[u].seq)
        => files.db = FileOf(cyc[t].target_rules)

\* the older of two overlapping cycles has saved after the newer one, and
\* the two observed different DesiredSets
OlderSavedLast ==
    \E t \in Threads, u \in Threads :
        /\ cyc[t].pc = "done" /\ cyc[t].saved
        /\ cyc[u].pc = "done" /\ cyc[u].saved
        /\ cyc[t].seq > cyc[u].seq
        /\ cyc[t].target_rules # cyc[u].target_rules
        /\ files.db = FileOf(cyc[u].target_rules)

\* C39: with a safety threshold below 1.0 no step of a cycle makes a
\* non-empty persisted ManagedSet empty, and a cycle whose DesiredSet holds
\* none of the managed domains sends no request and saves nothing.
C39_ManagedSetNeverEmptied ==
    [][safety_threshold < MaxSafetyThreshold =>
          /\ keys(ManagedView(files)) # {} => keys(ManagedView(files')) # {}
          /\ \A t \in Threads :
                (/\ keys(cyc'[t].managed_rules) # {}
                 /\ keys(cyc'[t].managed_rules) \cap keys(cyc'[t].target_rules) = {})
                => (cyc'[t].sent = NoRequests /\ ~cyc'[t].saved)]_vars

\* C39 for cycles run one after the other
C39_Sequential ==
    [][(safety_threshold < MaxSafetyThreshold
          /\ \E t \in Threads : \A u \in Threads \ {t} : cyc[u].pc = "idle" /\ cyc'[u].pc = "idle")
          => /\ keys(ManagedView(files)) # {} => keys(ManagedView(files')) # {}
             /\ \A t \in Threads :
                   (/\ keys(cyc'[t].managed_rules) # {}
                    /\ keys(cyc'[t].managed_rules) \cap keys(cyc'[t].target_rules) = {})
                   => (cyc'[t].sent = NoRequests /\ ~cyc'[t].saved)]_vars

====
